---- MODULE Spec2Model ----
(***************************************************************************)
(* Signal-to-stake P&L aggregation and stake-exit pipeline of              *)
(* world-trade-cron.                                                       *)
(*                                                                         *)
(* Conventions.                                                            *)
(*  - A JavaScript string is a sequence of one-character strings, so that  *)
(*    replace('%',''), parseFloat and toFixed(2) are modelled by what they *)
(*    do to the characters.                                                *)
(*  - A percentage number (a JavaScript double) is an exact fixed-point    *)
(*    integer counting units of 10^-FracDigits; binary rounding error of   *)
(*    doubles is outside the model.  NaN is the value NaN.                 *)
(*  - A Date is its getTime() value, an integer number of milliseconds.    *)
(*  - processedAt / lastProcessedAt (wall-clock metadata that no branch    *)
(*    reads) are not part of the records.                                  *)
(***************************************************************************)
EXTENDS Integers, Sequences, FiniteSets, TLC

VARIABLES
  influencers,  \* the influencers collection (read-only here)
  ledger,       \* the processed_signals collection, in insertion order
  summary,      \* the user_signal_summary collection, keyed by address
  runs,         \* one processAllInfluencerSignals execution per run id
  lastRun,      \* history: how the most recent finished run went
  calls,        \* history: number of direct markSignalsAsProcessed calls
  faults,       \* number of store operations that have thrown so far
  calc,         \* one application of calculateFinalTradeValue
  stakeDocs,    \* the stakes collection of world-staking (read-only here)
  now,          \* the wall clock, in milliseconds
  xrun,         \* the processSignalsMain execution
  exitCalls,    \* the exitTrade calls made so far, with their outcome
  chain,        \* the stakes of each user in the World Staking contract
  upd,          \* the updateUserTradesWithSignals execution
  updateCalls,  \* the updateTradeValue calls made so far, with their outcome
  tradeValueUpdates,  \* the UserTradeValueUpdate audit collection
  proc,         \* the Node process started on index.ts
  manager,      \* the CronJobManager instance
  jobs,         \* the executeJob executions of the manager
  db            \* the databaseManager singleton

aggVars == <<influencers, ledger, summary, runs, lastRun, calls, faults>>

exitVars == <<stakeDocs, now, xrun, exitCalls>>

updVars == <<chain, upd, updateCalls, tradeValueUpdates>>

cronVars == <<manager, jobs, db>>

vars == <<influencers, ledger, summary, runs, lastRun, calls, faults, calc,
          stakeDocs, now, xrun, exitCalls,
          chain, upd, updateCalls, tradeValueUpdates, proc,
          manager, jobs, db>>

(***************************************************************************)
(* Bounds                                                                  *)
(***************************************************************************)
MaxRuns == 2
MaxT0 == 1
MaxFaults == 2
MaxCalls == 1
MaxTicks == 2
MaxExitRuns == 2
FracDigits == 3
MaxJobs == 2
MaxJobRuns == 3
MaxManagerCalls == 3

Runs == 1..MaxRuns

RECURSIVE Pow10(_)
Pow10(n) == IF n = 0 THEN 1 ELSE 10 * Pow10(n - 1)

Scale == Pow10(FracDigits)

(***************************************************************************)
(* Strings and numbers                                                     *)
(***************************************************************************)
\* A JavaScript number: NaN, an infinity (inf is its sign), or the
\* fixed-point value v.
NaN == [nan |-> TRUE, inf |-> 0, v |-> 0]

Num(x) == [nan |-> FALSE, inf |-> 0, v |-> x]

Infinity(sign) == [nan |-> FALSE, inf |-> sign, v |-> 0]

isNaN(x) == x.nan

\* a + b on numbers: NaN absorbs, opposite infinities give NaN.
NumAdd(a, b) ==
  IF a.nan \/ b.nan THEN NaN
  ELSE IF a.inf # 0 /\ b.inf # 0 THEN (IF a.inf = b.inf THEN a ELSE NaN)
  ELSE IF a.inf # 0 THEN a
  ELSE IF b.inf # 0 THEN b
  ELSE Num(a.v + b.v)

DigitChars == <<"0", "1", "2", "3", "4", "5", "6", "7", "8", "9">>

IsDigit(c) == \E d \in 1..10 : DigitChars[d] = c

DigitVal(c) == (CHOOSE d \in 1..10 : DigitChars[d] = c) - 1

\* String.prototype.replace('%', ''): removes the FIRST '%' only.
ReplacePercent(s) ==
  IF \E k \in 1..Len(s) : s[k] = "%"
  THEN LET p == CHOOSE k \in 1..Len(s) :
                  s[k] = "%" /\ \A q \in 1..(k - 1) : s[q] # "%"
       IN  SubSeq(s, 1, p - 1) \o SubSeq(s, p + 1, Len(s))
  ELSE s

\* Number of consecutive digits of s starting at position k.
RECURSIVE DigitRun(_, _)
DigitRun(s, k) ==
  IF k <= Len(s) /\ IsDigit(s[k]) THEN 1 + DigitRun(s, k + 1) ELSE 0

\* Value of the digit string s[from..to] as a natural number.
RECURSIVE DigitsValue(_, _, _)
DigitsValue(s, from, to) ==
  IF to < from THEN 0
  ELSE 10 * DigitsValue(s, from, to - 1) + DigitVal(s[to])

InfinityChars == <<"I", "n", "f", "i", "n", "i", "t", "y">>

\* parseFloat: optional sign, then either the word Infinity or digits,
\* optional '.', digits; the longest numeric prefix is read and the rest
\* ignored; NaN when nothing is read.  Fraction digits beyond FracDigits are
\* dropped by the fixed-point model; the strings of the model carry no
\* leading white space and no exponent.
ParseFloat(s) ==
  LET sign  == IF Len(s) > 0 /\ s[1] = "-" THEN -1 ELSE 1
      start == IF Len(s) > 0 /\ s[1] \in {"-", "+"} THEN 2 ELSE 1
      nInt  == DigitRun(s, start)
      dot   == start + nInt
      hasDot == dot <= Len(s) /\ s[dot] = "."
      nFrac == IF hasDot THEN DigitRun(s, dot + 1) ELSE 0
      kept  == IF nFrac > FracDigits THEN FracDigits ELSE nFrac
      intV  == DigitsValue(s, start, start + nInt - 1)
      fracV == DigitsValue(s, dot + 1, dot + kept) * Pow10(FracDigits - kept)
  IN  IF /\ Len(s) >= start + Len(InfinityChars) - 1
         /\ SubSeq(s, start, start + Len(InfinityChars) - 1) = InfinityChars
      THEN Infinity(sign)
      ELSE IF nInt = 0 /\ nFrac = 0 THEN NaN
      ELSE Num(sign * (intV * Scale + fracV))

\* The idiom parseFloat(x.replace('%', '')) used throughout the source.
ParsePercent(s) == ParseFloat(ReplacePercent(s))

Abs(x) == IF x < 0 THEN -x ELSE x

\* Decimal digits of a natural number, most significant first.
RECURSIVE NatToString(_)
NatToString(n) ==
  IF n < 10 THEN <<DigitChars[n + 1]>>
  ELSE NatToString(n \div 10) \o <<DigitChars[(n % 10) + 1]>>

\* Variant: a toFixed(2) that drops the digits after the hundredths.
ToFixed2_Truncates(x) ==
  LET mag == Abs(x)
      n   == (mag * 100) \div Scale
      sgn == IF x < 0 THEN <<"-">> ELSE <<>>
  IN  sgn \o NatToString(n \div 100) \o <<".">>
          \o <<DigitChars[((n % 100) \div 10) + 1], DigitChars[(n % 10) + 1]>>

\* Number.prototype.toFixed(2): the sign is taken first, the magnitude is
\* rounded to the nearest hundredth (the larger one on a tie) and printed
\* with exactly two fraction digits.
ToFixed2(x) ==
  LET mag == Abs(x)
      n   == (mag * 100 + (Scale \div 2)) \div Scale
      sgn == IF x < 0 THEN <<"-">> ELSE <<>>
  IN  sgn \o NatToString(n \div 100) \o <<".">>
          \o <<DigitChars[((n % 100) \div 10) + 1], DigitChars[(n % 10) + 1]>>

\* toFixed(2) of any number: NaN and the infinities print their names.
NumToFixed2(x) ==
  IF x.nan THEN <<"N", "a", "N">>
  ELSE IF x.inf > 0 THEN InfinityChars
  ELSE IF x.inf < 0 THEN <<"-">> \o InfinityChars
  ELSE ToFixed2(x.v)

(***************************************************************************)
(* Stored data read by the pipeline                                        *)
(***************************************************************************)
SevenDaysMs == 7 * 24 * 60 * 60 * 1000

InfluencerNames == <<"alice", "bob">>

\* Subscriber addresses of each influencer document, in array order.  The
\* first address subscribes to both influencers.
SubscriberAddresses == <<  <<"0xS1", "0xS2">>, <<"0xS1">>  >>

Addresses == {"0xS1", "0xS2"}

\* The backtesting_results_with_reasoning collection.  The dates sit on and
\* around the borders of the windows anchored at 0..MaxT0 + 1.
BacktestingResults == <<
  [_id |-> "a1", account |-> "alice", date |-> 1,
   pnl |-> <<"1", "0", ".", "0", "0", "%">>, done |-> TRUE],
  [_id |-> "a2", account |-> "alice", date |-> SevenDaysMs,
   pnl |-> <<"-", "2", ".", "5", "0", "%">>, done |-> TRUE],
  [_id |-> "a3", account |-> "alice", date |-> SevenDaysMs + 1,
   pnl |-> <<"5", ".", "0", "0", "%">>, done |-> TRUE],
  [_id |-> "a4", account |-> "alice", date |-> 2,
   pnl |-> <<"n", "/", "a">>, done |-> TRUE],
  [_id |-> "a5", account |-> "alice", date |-> 2,
   pnl |-> <<"7", ".", "1", "2", "5", "%">>, done |-> FALSE],
  [_id |-> "b1", account |-> "bob", date |-> 2,
   pnl |-> <<"-", "1", "5", "0", ".", "0", "0", "%">>, done |-> TRUE],
  [_id |-> "b2", account |-> "bob", date |-> SevenDaysMs + 2,
   pnl |-> <<"1", ".", "5", "%">>, done |-> TRUE],
  [_id |-> "b3", account |-> "bob", date |-> 3,
   pnl |-> <<>>, done |-> TRUE],
  [_id |-> "b4", account |-> "bob", date |-> SevenDaysMs + 1,
   pnl |-> InfinityChars \o <<"%">>, done |-> TRUE] >>

\* Influencer documents: name and subscribers[{address, subscribedAt}], one
\* document set per choice of the subscription dates.
SubscriptionSlots ==
  { <<k, n>> : k \in 1..Len(InfluencerNames), n \in 1..2 }

InfluencerDocs ==
  { [ k \in 1..Len(InfluencerNames) |->
        [name |-> InfluencerNames[k],
         subscribers |->
           [ n \in 1..Len(SubscriberAddresses[k]) |->
               [address |-> SubscriberAddresses[k][n],
                subscribedAt |-> t[<<k, n>>]] ]] ] :
      t \in [ { sl \in SubscriptionSlots :
                  sl[2] <= Len(SubscriberAddresses[sl[1]]) } -> 0..MaxT0 ] }

EmptyMap == [ x \in {} |-> 0 ]

Min(S) == CHOOSE x \in S : \A y \in S : x <= y
Max(S) == CHOOSE x \in S : \A y \in S : x >= y

\* The Mongo query of getSignalsInDateRange.
getSignalsInDateRange(influencerName, fromDate, toDate) ==
  SelectSeq(BacktestingResults,
            LAMBDA sig : /\ sig.account = influencerName
                         /\ sig.date > fromDate
                         /\ sig.date <= toDate
                         /\ sig.done = TRUE
                         /\ sig.pnl # <<>>)

\* getRelevantSignals: one fetch per influencer that has subscribers, from
\* the earliest subscription date to the latest one plus seven days.  A
\* fetch that throws leaves the influencer without an entry; failed is the
\* set of influencer names whose fetch throws.
getRelevantSignals(infls, failed) ==
  LET fetched == { k \in 1..Len(infls) :
                     /\ Len(infls[k].subscribers) > 0
                     /\ infls[k].name \notin failed }
      dates(k) == { infls[k].subscribers[n].subscribedAt :
                      n \in 1..Len(infls[k].subscribers) }
  IN  [ name \in { infls[k].name : k \in fetched } |->
          LET k == CHOOSE q \in fetched : infls[q].name = name
          IN  getSignalsInDateRange(name, Min(dates(k)),
                                    Max(dates(k)) + SevenDaysMs) ]

(***************************************************************************)
(* signalProcessor.ts                                                      *)
(***************************************************************************)
filterValidSignals(signals) ==
  SelectSeq(signals, LAMBDA sig : sig.pnl # <<>> /\ ~isNaN(ParsePercent(sig.pnl)))

\* Variant: a window closed at its lower end.
InSubscriptionWindow_ClosedLower(date, subscribedAt) ==
  date >= subscribedAt /\ date <= subscribedAt + SevenDaysMs

\* Variant: a window with no upper end.
InSubscriptionWindow_NoUpperEnd(date, subscribedAt) ==
  date > subscribedAt

\* The subscription window test of processAllInfluencerSignals and of
\* processSubscriberSignals.
InSubscriptionWindow(date, subscribedAt) ==
  date > subscribedAt /\ date <= subscribedAt + SevenDaysMs

relevantSignalsOf(validSignals, subscriber) ==
  SelectSeq(validSignals,
            LAMBDA sig : InSubscriptionWindow(sig.date, subscriber.subscribedAt))

processSubscriberSignals(subscriber, influencer, signals) ==
  LET inWindow == SelectSeq(signals,
                    LAMBDA sig : InSubscriptionWindow(sig.date,
                                                      subscriber.subscribedAt))
  IN  [ n \in 1..Len(inWindow) |->
          [subscriberAddress |-> subscriber.address,
           influencerName |-> influencer.name,
           signalId |-> inWindow[n]._id,
           finalPnL |-> inWindow[n].pnl,
           signalGenerationDate |-> inWindow[n].date,
           subscribedAt |-> subscriber.subscribedAt] ]

\* Sum of the parseable finalPnL values and their count.
RECURSIVE SumParsed(_)
SumParsed(signals) ==
  IF signals = <<>> THEN [total |-> Num(0), count |-> 0]
  ELSE LET rest == SumParsed(Tail(signals))
           v    == ParsePercent(Head(signals).finalPnL)
       IN  IF isNaN(v) THEN rest
           ELSE [total |-> NumAdd(rest.total, v), count |-> rest.count + 1]

calculateTotalSumPnL(signals) ==
  IF Len(signals) = 0 THEN <<"0", "%">>
  ELSE LET acc == SumParsed(signals)
       IN  IF acc.count = 0 THEN <<"0", "%">>
           ELSE NumToFixed2(acc.total) \o <<"%">>

\* Variant: a lookup that answers from the ledger even when the query
\* throws.
getProcessedSignalIds_IgnoresFailure(subscriberAddress, rows, lookupFails) ==
  { rows[n].signalId :
      n \in { q \in 1..Len(rows) :
                rows[q].subscriberAddress = subscriberAddress } }

\* getProcessedSignalIds: the signalId set of the subscriber's ledger rows,
\* or the empty set when the query throws.
getProcessedSignalIds(subscriberAddress, rows, lookupFails) ==
  IF lookupFails THEN {}
  ELSE { rows[n].signalId :
           n \in { q \in 1..Len(rows) :
                     rows[q].subscriberAddress = subscriberAddress } }

\* Variant: a filter that never consults the ledger.
filterUnprocessedSignals_IgnoresLedger(subscriberAddress, signals, rows, lookupFails) ==
  signals

filterUnprocessedSignals(subscriberAddress, signals, rows, lookupFails) ==
  LET processedSignalIds ==
        getProcessedSignalIds(subscriberAddress, rows, lookupFails)
  IN  SelectSeq(signals, LAMBDA sig : sig._id \notin processedSignalIds)

\* The ProcessedSignalRecord documents built from a batch.
processedSignalRecords(subscriberSignals) ==
  [ n \in 1..Len(subscriberSignals) |->
      [subscriberAddress |-> subscriberSignals[n].subscriberAddress,
       signalId |-> subscriberSignals[n].signalId,
       influencerName |-> subscriberSignals[n].influencerName,
       finalPnL |-> subscriberSignals[n].finalPnL,
       signalGenerationDate |-> subscriberSignals[n].signalGenerationDate] ]

(***************************************************************************)
(* database.ts: the summary increment of markSignalsAsProcessed            *)
(***************************************************************************)
\* reduce((sum, signal) => sum + (isNaN(pnlValue) ? 0 : pnlValue), 0)
RECURSIVE batchPnL(_)
batchPnL(records) ==
  IF records = <<>> THEN Num(0)
  ELSE LET v == ParsePercent(Head(records).finalPnL)
       IN  NumAdd(IF isNaN(v) THEN Num(0) ELSE v, batchPnL(Tail(records)))

\* new Date(Math.max(...dates)); Math.max() of no argument is -Infinity,
\* which makes an Invalid Date.
InvalidDate == 0 - 1

latestSignalDate(records) ==
  IF Len(records) = 0 THEN InvalidDate
  ELSE Max({ records[n].signalGenerationDate : n \in 1..Len(records) })

\* updateOne({subscriberAddress}, {$inc, $set}, {upsert: true}) on the
\* user_signal_summary collection, a function from the addresses that have
\* a document to that document.
upsertSummary(coll, subscriberAddress, records) ==
  LET old == IF subscriberAddress \in DOMAIN coll
             THEN coll[subscriberAddress]
             ELSE [totalSignalsProcessed |-> 0, totalPnLPercentage |-> Num(0),
                   lastSignalDate |-> 0]
      new == [totalSignalsProcessed |->
                old.totalSignalsProcessed + Len(records),
              totalPnLPercentage |->
                NumAdd(old.totalPnLPercentage, batchPnL(records)),
              lastSignalDate |-> latestSignalDate(records)]
  IN  [ a \in (DOMAIN coll) \cup {subscriberAddress} |->
          IF a = subscriberAddress THEN new ELSE coll[a] ]

\* getUserSignalSummary(...).totalPnLPercentage, or 0 when the document is
\* absent or the query throws (the method then returns null).
existingTotalPnL(coll, subscriberAddress, queryFails) ==
  IF queryFails \/ subscriberAddress \notin DOMAIN coll THEN Num(0)
  ELSE coll[subscriberAddress].totalPnLPercentage

(***************************************************************************)
(* Stake exit valuation (stakeExitProcessor.ts)                            *)
(*                                                                         *)
(* Wei amounts exceed the integers of the checker, so a number of the      *)
(* valuation is the exact decimal m * 10^e, kept as [m, e].                *)
(***************************************************************************)
Dec(m, e) == [m |-> m, e |-> e]

DecMul(a, b) == Dec(a.m * b.m, a.e + b.e)

\* a / 10^k
DecShift(a, k) == Dec(a.m, a.e - k)

DecAdd(a, b) ==
  LET e == IF a.e < b.e THEN a.e ELSE b.e
  IN  Dec(a.m * Pow10(a.e - e) + b.m * Pow10(b.e - e), e)

\* Math.floor
DecFloor(a) == IF a.e >= 0 THEN a ELSE Dec(a.m \div Pow10(0 - a.e), 0)

\* Math.max(0, a)
DecMax0(a) == IF a.m < 0 THEN Dec(0, 0) ELSE a

\* Number.prototype.toString of a non-negative integer below 1e21: its
\* digits.
DecToString(a) ==
  IF a.m = 0 THEN <<"0">>
  ELSE NatToString(a.m) \o [ n \in 1..a.e |-> "0" ]

\* BigInt(s) of a string accepts a decimal integer literal and throws a
\* SyntaxError on "Infinity" and "NaN".
IsIntegerLiteral(s) == Len(s) > 0 /\ \A k \in 1..Len(s) : IsDigit(s[k])

WeiPerEth == Dec(1, 18)

\* Variant: the value without Math.floor.
finalTradeValueNumber_NoFloor(stakeAmount, totalPnLPercentage) ==
  LET stakeAmountWei   == DecMul(stakeAmount, WeiPerEth)
      tradingAmountWei == DecShift(DecMul(stakeAmountWei, Dec(2, 0)), 2)
      pnlValue         == ParsePercent(totalPnLPercentage)
      finalValueWei    ==
        DecAdd(tradingAmountWei,
               DecShift(DecMul(tradingAmountWei,
                               Dec(pnlValue.v, 0 - FracDigits)), 2))
  IN  IF isNaN(pnlValue) THEN tradingAmountWei
      ELSE DecMax0(finalValueWei)

\* The number calculateFinalTradeValue prints (lines 76-93) for a
\* percentage that parses to a finite number or to NaN.
finalTradeValueNumber(stakeAmount, totalPnLPercentage) ==
  LET stakeAmountWei   == DecMul(stakeAmount, WeiPerEth)
      tradingAmountWei == DecShift(DecMul(stakeAmountWei, Dec(2, 0)), 2)
      pnlValue         == ParsePercent(totalPnLPercentage)
      finalValueWei    ==
        DecAdd(tradingAmountWei,
               DecShift(DecMul(tradingAmountWei,
                               Dec(pnlValue.v, 0 - FracDigits)), 2))
  IN  IF isNaN(pnlValue) THEN DecFloor(tradingAmountWei)
      ELSE DecMax0(DecFloor(finalValueWei))

\* calculateFinalTradeValue.  With an infinite percentage the product
\* tradingAmountWei * pnlValue is NaN for a zero stake and an infinity
\* otherwise; Math.max(0, NaN) is NaN and Math.max(0, -Infinity) is 0.
calculateFinalTradeValue(stakeAmount, totalPnLPercentage) ==
  LET pnlValue == ParsePercent(totalPnLPercentage)
  IN  IF pnlValue.inf = 0
      THEN DecToString(finalTradeValueNumber(stakeAmount, totalPnLPercentage))
      ELSE IF stakeAmount.m = 0 THEN <<"N", "a", "N">>
      ELSE IF pnlValue.inf > 0 THEN InfinityChars
      ELSE <<"0">>

\* Variant: the negative branch without the floor at zero.
calculateNewTradeValue_NoClamp(tradingAmount, pnlPercentage) ==
  LET pnlValue == ParsePercent(pnlPercentage)
      changeBigInt ==
        DecFloor(DecShift(DecMul(tradingAmount,
                                 Dec(Abs(pnlValue.v), 0 - FracDigits)), 2))
  IN  IF isNaN(pnlValue) \/ pnlValue.inf # 0 THEN tradingAmount
      ELSE IF pnlValue.v > 0 THEN DecAdd(tradingAmount, changeBigInt)
      ELSE IF pnlValue.v < 0
           THEN DecAdd(tradingAmount, Dec(0 - changeBigInt.m, changeBigInt.e))
      ELSE tradingAmount

\* calculateNewTradeValue (blockchain.ts 166-202) on a bigint tradingAmount.
\* NaN is neither > 0 nor < 0 and takes the last branch.  With an infinite
\* percentage changeAmount is an infinity or NaN, BigInt(...) throws and the
\* catch returns tradingAmount.
calculateNewTradeValue(tradingAmount, pnlPercentage) ==
  LET pnlValue == ParsePercent(pnlPercentage)
      changeBigInt ==
        DecFloor(DecShift(DecMul(tradingAmount,
                                 Dec(Abs(pnlValue.v), 0 - FracDigits)), 2))
      newValue ==
        DecAdd(tradingAmount, Dec(0 - changeBigInt.m, changeBigInt.e))
  IN  IF isNaN(pnlValue) \/ pnlValue.inf # 0 THEN tradingAmount
      ELSE IF pnlValue.v > 0 THEN DecAdd(tradingAmount, changeBigInt)
      ELSE IF pnlValue.v < 0
           THEN (IF newValue.m < 0 THEN Dec(0, 0) ELSE newValue)
      ELSE tradingAmount

\* No application of calculateFinalTradeValue, calculateNewTradeValue or
\* calculateTotalSumPnL yet.
CalcIdle ==
  [stakeAmount |-> Dec(0, 0), pnl |-> <<>>, done |-> FALSE,
   number |-> Dec(0, 0), text |-> <<>>,
   tradingAmount |-> Dec(0, 0), doneNew |-> FALSE, newValue |-> Dec(0, 0),
   entries |-> <<>>, doneSum |-> FALSE, sumText |-> <<>>,
   doneSumOfSignals |-> FALSE, sumOfSignalsText |-> <<>>]

(***************************************************************************)
(* Stake exit flow: data and pure steps                                    *)
(***************************************************************************)
NowStart == SevenDaysMs

StakeOpenTimes == {1, 2}

StakeExitTimes == {SevenDaysMs, SevenDaysMs + 1}

\* The stakes collection: the empty collection, or two users holding two
\* stakes and one stake, with stakeAmount 100, 0.5 and 1 ETH.
StakeDocSets ==
  { <<>> } \cup
  { << [walletAddress |-> "0xS1",
        stakes |-> << [stakeAmount |-> Dec(100, 0), timestamp |-> t[1],
                       exitTimestamp |-> x[1]],
                      [stakeAmount |-> Dec(5, 0 - 1), timestamp |-> 2,
                       exitTimestamp |-> x[2] + 2] >>],
       [walletAddress |-> "0xS2",
        stakes |-> << [stakeAmount |-> Dec(1, 0), timestamp |-> t[2],
                       exitTimestamp |-> SevenDaysMs + 1] >>] >> :
      t \in [1..2 -> StakeOpenTimes], x \in [1..2 -> StakeExitTimes] }

RECURSIVE Flatten(_)
Flatten(seqs) ==
  IF seqs = <<>> THEN <<>> ELSE Head(seqs) \o Flatten(Tail(seqs))

\* getStakesReadyToExit (database.ts 405-434) at currentTime.
\* Variant: a readiness test that is one millisecond early.
getStakesReadyToExit_Early(allUserStakes, currentTime) ==
  LET perUser ==
        [ u \in 1..Len(allUserStakes) |->
            [userStakes |-> allUserStakes[u],
             readyStakes |->
               SelectSeq([ n \in 1..Len(allUserStakes[u].stakes) |->
                             [index |-> n - 1,
                              stake |-> allUserStakes[u].stakes[n]] ],
                         LAMBDA rs : currentTime + 1 >= rs.stake.exitTimestamp)] ]
  IN  SelectSeq(perUser, LAMBDA e : Len(e.readyStakes) > 0)

getStakesReadyToExit(allUserStakes, currentTime) ==
  LET perUser ==
        [ u \in 1..Len(allUserStakes) |->
            [userStakes |-> allUserStakes[u],
             readyStakes |->
               SelectSeq([ n \in 1..Len(allUserStakes[u].stakes) |->
                             [index |-> n - 1,
                              stake |-> allUserStakes[u].stakes[n]] ],
                         LAMBDA rs : currentTime >= rs.stake.exitTimestamp)] ]
  IN  SelectSeq(perUser, LAMBDA e : Len(e.readyStakes) > 0)

\* Every ready stake with its owner, in processing order.
readyList(stakeRecords) ==
  Flatten([ u \in 1..Len(stakeRecords) |->
              [ n \in 1..Len(stakeRecords[u].readyStakes) |->
                  [walletAddress |-> stakeRecords[u].userStakes.walletAddress,
                   index |-> stakeRecords[u].readyStakes[n].index,
                   stake |-> stakeRecords[u].readyStakes[n].stake] ] ])

\* getSignalsForStakeRanges (database.ts 439-477): one fetch per influencer
\* over the span from the earliest timestamp to the latest exitTimestamp of
\* the ready stakes; failed is the set of names whose fetch throws.
getSignalsForStakeRanges(stakeRecords, infls, failed) ==
  LET ranges  == readyList(stakeRecords)
      minDate == Min({ ranges[n].stake.timestamp : n \in 1..Len(ranges) })
      maxDate == Max({ ranges[n].stake.exitTimestamp : n \in 1..Len(ranges) })
      names   == IF Len(ranges) = 0 THEN {}
                 ELSE { infls[k].name : k \in 1..Len(infls) } \ failed
  IN  [ name \in names |-> getSignalsInDateRange(name, minDate, maxDate) ]

\* getSignalsInRange (stakeExitProcessor.ts 29-38)
\* Variant: no range filter, every fetched signal is taken.
getSignalsInRange_WholeFetch(signals, fromDate, toDate) == signals

getSignalsInRange(signals, fromDate, toDate) ==
  SelectSeq(signals, LAMBDA sig : sig.date >= fromDate /\ sig.date <= toDate)

\* calculateTotalSumPnL of stakeExitProcessor.ts (lines 43-70), which reads
\* the "Final P&L" field of backtesting signals.
RECURSIVE SumParsedSignals(_)
SumParsedSignals(signals) ==
  IF signals = <<>> THEN [total |-> Num(0), count |-> 0]
  ELSE LET rest == SumParsedSignals(Tail(signals))
           v    == ParsePercent(Head(signals).pnl)
       IN  IF isNaN(v) THEN rest
           ELSE [total |-> NumAdd(rest.total, v), count |-> rest.count + 1]

calculateTotalSumPnLOfSignals(signals) ==
  IF Len(signals) = 0 THEN <<"0", "%">>
  ELSE LET acc == SumParsedSignals(signals)
       IN  IF acc.count = 0 THEN <<"0", "%">>
           ELSE NumToFixed2(acc.total) \o <<"%">>

\* processStakeExits (stakeExitProcessor.ts 99-156): one StakeExitData per
\* ready stake.  The entries of signalsMap are visited in insertion order,
\* the order of the influencer documents.
processStakeExits(stakesReadyToExit, signalsMap, infls) ==
  LET ready == readyList(stakesReadyToExit)
      influencerNamesSet == { infls[k].name : k \in 1..Len(infls) }
      entries == SelectSeq([ k \in 1..Len(infls) |-> infls[k].name ],
                           LAMBDA name : name \in DOMAIN signalsMap)
      one(rs) ==
        LET relevantSignals ==
              Flatten([ k \in 1..Len(entries) |->
                          IF entries[k] \in influencerNamesSet
                          THEN getSignalsInRange(signalsMap[entries[k]],
                                                 rs.stake.timestamp,
                                                 rs.stake.exitTimestamp)
                          ELSE <<>> ])
            validSignals == filterValidSignals(relevantSignals)
            totalPnL == calculateTotalSumPnLOfSignals(validSignals)
        IN  [walletAddress |-> rs.walletAddress,
             stakeIndex |-> rs.index,
             stakeRecord |-> rs.stake,
             signals |-> validSignals,
             totalPnL |-> totalPnL,
             finalTradeValue |->
               calculateFinalTradeValue(rs.stake.stakeAmount, totalPnL)]
  IN  [ n \in 1..Len(ready) |-> one(ready[n]) ]

(***************************************************************************)
(* blockchain.ts: the contract as updateUserTradesWithSignals reads it     *)
(***************************************************************************)
\* ContractStakeDetails: the fields the flow reads, and currentTradeValue,
\* which updateTradeValue writes; a new stake has it at the trading amount.
StakeDetails(tradingAmount, active, tradeActive) ==
  [tradingAmount |-> tradingAmount, currentTradeValue |-> tradingAmount,
   active |-> active, tradeActive |-> tradeActive]

\* The stakes of each user in the contract: three for 0xS1, one for 0xS2.
ChainStates ==
  { [ a \in Addresses |->
        IF a = "0xS1"
        THEN << StakeDetails(Dec(2, 18), act, TRUE),
                StakeDetails(Dec(7, 0), TRUE, trd),
                StakeDetails(Dec(1, 16), TRUE, TRUE) >>
        ELSE << StakeDetails(Dec(333, 0), TRUE, TRUE) >> ] :
      act \in BOOLEAN, trd \in BOOLEAN }

DefaultChain ==
  CHOOSE c \in ChainStates :
    \A a \in Addresses : \A n \in 1..Len(c[a]) :
      c[a][n].active /\ c[a][n].tradeActive

\* No updateUserTradesWithSignals execution yet.
IdleUpdate ==
  [pc |-> "idle", n |-> 0, userAddress |-> "", totalSumPnL |-> <<>>,
   stakeCount |-> 0, i |-> 0, newTradeValue |-> Dec(0, 0),
   updated |-> 0, errors |-> 0]

\* No processSignalsMain execution yet.  checkedAt is history: the time
\* of the readiness check of the execution, 0 before it.
IdleExit ==
  [pc |-> "idle", n |-> 0, stakesReadyToExit |-> <<>>,
   signalsMap |-> EmptyMap, fetchFailed |-> {}, results |-> <<>>, k |-> 1,
   totalUsersWithStakes |-> 0, totalStakes |-> 0, stakesReadyCount |-> 0,
   totalBlockchainExits |-> 0, totalBlockchainErrors |-> 0,
   fatal |-> "none", checkedAt |-> 0]

\* The process before index.ts and the modules it imports are evaluated.
\* cronEnabled is ENABLE_CRON !== 'false'; privateKey and mongoUri tell
\* whether PRIVATE_KEY and MONGODB_URI are set; calls counts the calls of
\* processSignalsMain made by main; exitCode is the exit code of the
\* process, -1 while it lives.
IdleProcess ==
  [pc |-> "load", cronEnabled |-> TRUE, privateKey |-> TRUE,
   mongoUri |-> TRUE, calls |-> 0, exitCode |-> 0 - 1]

\* The CronJobManager after its constructor (index.ts 19-35): no task, all
\* counters 0.  tasks counts the node-cron tasks that were started and not
\* stopped; timer tells whether the setTimeout of RUN_IMMEDIATELY is
\* pending; runImmediately is RUN_IMMEDIATELY === 'true'; managerCalls
\* counts the calls of start and stop made so far, lastCall names the
\* last of them and found tells whether it found a task.
IdleManager ==
  [cronJob |-> FALSE, tasks |-> 0, timer |-> FALSE, runImmediately |-> FALSE,
   totalRuns |-> 0, successfulRuns |-> 0, failedRuns |-> 0,
   managerCalls |-> 0, lastCall |-> "none", found |-> FALSE]

Jobs == 1..MaxJobs

\* No executeJob execution in this slot.  outcome is how processSignalsMain
\* ended; healthy and lost are history: the execution passed its database
\* health check, and a database operation of it found the handle gone
\* afterwards.
IdleJob ==
  [pc |-> "idle", outcome |-> "none", healthy |-> FALSE, lost |-> FALSE]

NoJobs == [ j \in Jobs |-> IdleJob ]

\* The databaseManager singleton after its constructor (database.ts 8-14,
\* 650): client is `this.client !== null`, refs tells whether the four Db
\* references are set, closedBy is history (0: no disconnect cleared them).
NoConnection == [client |-> FALSE, refs |-> FALSE, closedBy |-> 0]

(***************************************************************************)
(* processAllInfluencerSignals as a process                                *)
(*                                                                         *)
(* pc is the await the execution is suspended at:                          *)
(*   "subscriber"  top of the body of the subscriber loop                  *)
(*   "filter"      await filterUnprocessedSignals          (line 203)      *)
(*   "summary"     await getUserSignalSummary              (line 219)      *)
(*   "insert"      await insertMany                        (database 198)  *)
(*   "update"      await updateOne                         (database 213)  *)
(*   "verify"      await countDocuments / find             (database 240)  *)
(* Fields lookupFailed, mark, before, inserted, clean, repeat,             *)
(* summaryAtStart and ledgerAtStart are history: they record what happened *)
(* and are read by no action.                                              *)
(***************************************************************************)
IdleRun ==
  [pc |-> "idle", caller |-> "engine", signalsMap |-> EmptyMap,
   i |-> 1, j |-> 1, address |-> "", relevant |-> <<>>, batch |-> <<>>,
   records |-> <<>>,
   results |-> EmptyMap,
   lookupFailed |-> FALSE, mark |-> "none",
   before |-> [ledger |-> <<>>, summary |-> EmptyMap],
   inserted |-> 0, clean |-> TRUE, repeat |-> FALSE,
   summaryAtStart |-> EmptyMap, ledgerAtStart |-> <<>>]

\* An execution that returned and whose locals are gone.
ReturnedRun == [IdleRun EXCEPT !.pc = "done"]

Init ==
  /\ influencers \in InfluencerDocs
  /\ ledger = <<>>
  /\ summary = EmptyMap
  /\ runs = [ r \in Runs |-> IdleRun ]
  /\ lastRun = [finished |-> 0, clean |-> FALSE, signalsMap |-> EmptyMap]
  /\ calls = 0
  /\ faults = 0
  /\ calc = CalcIdle
  /\ stakeDocs = <<>>
  /\ now = NowStart
  /\ xrun = IdleExit
  /\ exitCalls = <<>>
  /\ chain = DefaultChain
  /\ upd = IdleUpdate
  /\ updateCalls = <<>>
  /\ tradeValueUpdates = <<>>
  /\ proc = IdleProcess
  /\ manager = IdleManager
  /\ jobs = NoJobs
  /\ db = NoConnection

\* signalsMap.get(influencer.name) || []
signalsOf(signalsMap, name) ==
  IF name \in DOMAIN signalsMap THEN signalsMap[name] ELSE <<>>

\* The end of one iteration of the subscriber loop: by `continue`, by falling
\* off the end of the try block, or through the catch of line 255.
nextSubscriber(run) ==
  [run EXCEPT !.pc = "subscriber", !.j = @ + 1,
              !.relevant = <<>>, !.batch = <<>>, !.records = <<>>]

\* markSignalsAsProcessed returns or throws: the engine goes on with the next
\* subscriber either way (line 255 swallows the error); a direct caller gets
\* control back.
markReturns(run, outcome) ==
  IF run.caller = "engine"
  THEN [nextSubscriber(run) EXCEPT !.mark = outcome,
          !.clean = @ /\ (outcome = "ok")]
  ELSE [run EXCEPT !.pc = "idle", !.records = <<>>, !.mark = outcome]

\* Variant: an entry without the empty-list return.
markEntry_NoEmptyCheck(run, records) ==
  [run EXCEPT !.pc = "insert", !.records = records, !.mark = "running"]

\* markSignalsAsProcessed up to its first await (database.ts 185-198): an
\* empty list returns at once, anything else goes on to insertMany.
markEntry(run, records) ==
  IF Len(records) = 0
  THEN markReturns(run, "ok")
  ELSE [run EXCEPT !.pc = "insert", !.records = records, !.mark = "running"]

\* getRelevantSignals, then processAllInfluencerSignals up to the first
\* subscriber.  Runs follow one another: a run starts when every earlier run
\* has returned.
StartRun(r) ==
  /\ runs[r].pc = "idle"
  /\ \A q \in Runs : q < r => runs[q].pc = "done"
  /\ \E failed \in SUBSET { InfluencerNames[k] : k \in 1..Len(InfluencerNames) } :
       /\ faults + Cardinality(failed) <= MaxFaults
       /\ faults' = faults + Cardinality(failed)
       /\ LET sm == getRelevantSignals(influencers, failed)
              started == [IdleRun EXCEPT !.pc = "subscriber", !.signalsMap = sm,
                            !.clean = (failed = {}),
                            !.repeat = /\ lastRun.finished > 0
                                       /\ lastRun.clean
                                       /\ lastRun.signalsMap = sm,
                            !.summaryAtStart = summary,
                            !.ledgerAtStart = ledger]
          IN  runs' = [ q \in Runs |->
                        IF q = r THEN started
                        ELSE IF runs[q].pc = "done" THEN ReturnedRun
                        ELSE runs[q] ]
  /\ UNCHANGED <<influencers, ledger, summary, lastRun, calls>>

\* Lines 186-200: the window filter; `continue` when nothing is relevant.
BeginSubscriber(r) ==
  LET run == runs[r] IN
  /\ run.pc = "subscriber"
  /\ run.i <= Len(influencers)
  /\ run.j <= Len(influencers[run.i].subscribers)
  /\ LET influencer == influencers[run.i]
         subscriber == influencer.subscribers[run.j]
         validSignals ==
           filterValidSignals(signalsOf(run.signalsMap, influencer.name))
         relevantSignals == relevantSignalsOf(validSignals, subscriber)
         fresh == [run EXCEPT !.address = subscriber.address,
                              !.lookupFailed = FALSE, !.mark = "none",
                              !.before = IdleRun.before]
     IN  runs' = [runs EXCEPT ![r] =
           IF Len(relevantSignals) = 0
           THEN nextSubscriber(fresh)
           ELSE [fresh EXCEPT !.pc = "filter",
                              !.relevant = relevantSignals]]
  /\ UNCHANGED <<influencers, ledger, summary, lastRun, calls, faults>>

\* Line 172: the subscriber loop of one influencer is over.
NextInfluencer(r) ==
  LET run == runs[r] IN
  /\ run.pc = "subscriber"
  /\ run.i <= Len(influencers)
  /\ run.j > Len(influencers[run.i].subscribers)
  /\ runs' = [runs EXCEPT ![r] =
       [run EXCEPT !.i = @ + 1, !.j = 1, !.address = "",
                   !.lookupFailed = FALSE, !.mark = "none",
                   !.before = IdleRun.before]]
  /\ UNCHANGED <<influencers, ledger, summary, lastRun, calls, faults>>

\* Line 261: return subscriberResults.
FinishRun(r) ==
  LET run == runs[r] IN
  /\ run.pc = "subscriber"
  /\ run.i > Len(influencers)
  /\ runs' = [runs EXCEPT ![r] = [run EXCEPT !.pc = "done"]]
  /\ lastRun' = [finished |-> 1, clean |-> run.clean,
                 signalsMap |-> run.signalsMap]
  /\ UNCHANGED <<influencers, ledger, summary, calls, faults>>

\* Variant: an iteration that starts its ledger write straight after the
\* ledger lookup, before the summary read.
FilterUnprocessed_StartsWriteAtOnce(r) ==
  LET run == runs[r] IN
  /\ run.pc = "filter"
  /\ \E lookupFails \in BOOLEAN :
       /\ lookupFails => faults < MaxFaults
       /\ faults' = faults + (IF lookupFails THEN 1 ELSE 0)
       /\ LET influencer == influencers[run.i]
              subscriber == influencer.subscribers[run.j]
              unprocessedSignals ==
                filterUnprocessedSignals(subscriber.address, run.relevant,
                                         ledger, lookupFails)
              subscriberSignals ==
                processSubscriberSignals(subscriber, influencer,
                                         unprocessedSignals)
              seen == [run EXCEPT !.lookupFailed = lookupFails,
                                  !.clean = @ /\ ~lookupFails]
          IN  runs' = [runs EXCEPT ![r] =
                IF Len(unprocessedSignals) = 0 \/ Len(subscriberSignals) = 0
                THEN nextSubscriber(seen)
                ELSE [seen EXCEPT !.pc = "insert",
                                  !.batch = subscriberSignals,
                                  !.records =
                                    processedSignalRecords(subscriberSignals),
                                  !.mark = "running"]]
  /\ UNCHANGED <<influencers, ledger, summary, lastRun, calls>>

\* Lines 203-213: the ledger lookup (which may throw inside
\* getProcessedSignalIds), the dedup filter and processSubscriberSignals.
FilterUnprocessed(r) ==
  LET run == runs[r] IN
  /\ run.pc = "filter"
  /\ \E lookupFails \in BOOLEAN :
       /\ lookupFails => faults < MaxFaults
       /\ faults' = faults + (IF lookupFails THEN 1 ELSE 0)
       /\ LET influencer == influencers[run.i]
              subscriber == influencer.subscribers[run.j]
              unprocessedSignals ==
                filterUnprocessedSignals(subscriber.address, run.relevant,
                                         ledger, lookupFails)
              subscriberSignals ==
                processSubscriberSignals(subscriber, influencer,
                                         unprocessedSignals)
              seen == [run EXCEPT !.lookupFailed = lookupFails,
                                  !.clean = @ /\ ~lookupFails]
          IN  runs' = [runs EXCEPT ![r] =
                IF Len(unprocessedSignals) = 0 \/ Len(subscriberSignals) = 0
                THEN nextSubscriber(seen)
                ELSE [seen EXCEPT !.pc = "summary",
                                  !.batch = subscriberSignals]]
  /\ UNCHANGED <<influencers, ledger, summary, lastRun, calls>>

\* Variant: a cumulative total that also counts the executions finished
\* before this one.
GetSummary_CountsEarlierRuns(r) ==
  LET run == runs[r] IN
  /\ run.pc = "summary"
  /\ \E queryFails \in BOOLEAN :
       /\ queryFails => faults < MaxFaults
       /\ faults' = faults + (IF queryFails THEN 1 ELSE 0)
       /\ LET existing == existingTotalPnL(summary, run.address, queryFails)
              newSignalsPnL == calculateTotalSumPnL(run.batch)
              newSignalsPnLValue == ParsePercent(newSignalsPnL)
              cumulativeTotalPnL ==
                NumAdd(NumAdd(existing, newSignalsPnLValue),
                       Num(lastRun.finished * Scale))
              result == [signals |-> run.batch,
                         totalSumPnL |-> NumToFixed2(cumulativeTotalPnL) \o <<"%">>,
                         newSignalsCount |-> Len(run.batch)]
          IN  runs' = [runs EXCEPT ![r] =
                [markEntry(run, processedSignalRecords(run.batch)) EXCEPT
                   !.results = [ a \in (DOMAIN run.results) \cup {run.address} |->
                                   IF a = run.address THEN result
                                   ELSE run.results[a] ],
                   !.clean = @ /\ ~queryFails,
                   !.before = [ledger |-> ledger, summary |-> summary]]]
  /\ UNCHANGED <<influencers, ledger, summary, lastRun, calls>>

\* Lines 219-247: the summary read, the new and cumulative totals, the
\* result stored under the address, and the call of markSignalsAsProcessed
\* up to its insertMany.
GetSummary(r) ==
  LET run == runs[r] IN
  /\ run.pc = "summary"
  /\ \E queryFails \in BOOLEAN :
       /\ queryFails => faults < MaxFaults
       /\ faults' = faults + (IF queryFails THEN 1 ELSE 0)
       /\ LET existing == existingTotalPnL(summary, run.address, queryFails)
              newSignalsPnL == calculateTotalSumPnL(run.batch)
              newSignalsPnLValue == ParsePercent(newSignalsPnL)
              cumulativeTotalPnL == NumAdd(existing, newSignalsPnLValue)
              result == [signals |-> run.batch,
                         totalSumPnL |-> NumToFixed2(cumulativeTotalPnL) \o <<"%">>,
                         newSignalsCount |-> Len(run.batch)]
          IN  runs' = [runs EXCEPT ![r] =
                [markEntry(run, processedSignalRecords(run.batch)) EXCEPT
                   !.results = [ a \in (DOMAIN run.results) \cup {run.address} |->
                                   IF a = run.address THEN result
                                   ELSE run.results[a] ],
                   !.clean = @ /\ ~queryFails,
                   !.before = [ledger |-> ledger, summary |-> summary]]]
  /\ UNCHANGED <<influencers, ledger, summary, lastRun, calls>>

\* Variant: an insertMany on a collection with a unique index on
\* (subscriberAddress, signalId), which rejects a batch holding a pair that
\* is already stored.
InsertMany_UniqueIndex(r) ==
  LET run == runs[r]
      records == run.records
      stored(rec) == \E n \in 1..Len(ledger) :
                       /\ ledger[n].subscriberAddress = rec.subscriberAddress
                       /\ ledger[n].signalId = rec.signalId
  IN
  /\ run.pc = "insert"
  /\ \/ /\ \A n \in 1..Len(records) : ~ stored(records[n])
        /\ ledger' = ledger \o records
        /\ faults' = faults
        /\ runs' = [runs EXCEPT ![r] =
             [run EXCEPT !.pc = "update",
                         !.inserted = @ + Len(records)]]
     \/ /\ \E n \in 1..Len(records) : stored(records[n])
        /\ faults' = faults
        /\ ledger' = ledger
        /\ runs' = [runs EXCEPT ![r] = markReturns(run, "failed")]
     \/ /\ faults < MaxFaults
        /\ faults' = faults + 1
        /\ ledger' = ledger
        /\ runs' = [runs EXCEPT ![r] = markReturns(run, "failed")]
  /\ UNCHANGED <<influencers, summary, lastRun, calls>>

\* database.ts 198: insertMany.  It inserts every document, or throws and
\* inserts none (a bulk insert that throws after a part of the documents is
\* not modelled: the all-or-nothing insert is the case most favourable to
\* the ledger).
InsertMany(r) ==
  LET run == runs[r]
      records == run.records
  IN
  /\ run.pc = "insert"
  /\ \/ /\ ledger' = ledger \o records
        /\ faults' = faults
        /\ runs' = [runs EXCEPT ![r] =
             [run EXCEPT !.pc = "update",
                         !.inserted = @ + Len(records)]]
     \/ /\ faults < MaxFaults
        /\ faults' = faults + 1
        /\ ledger' = ledger
        /\ runs' = [runs EXCEPT ![r] = markReturns(run, "failed")]
  /\ UNCHANGED <<influencers, summary, lastRun, calls>>

\* database.ts 201-226: the batch total, the latest signal date and the
\* upsert of the summary document; the upsert may throw.
UpdateSummary(r) ==
  LET run == runs[r]
      records == run.records
  IN
  /\ run.pc = "update"
  /\ \/ /\ summary' = upsertSummary(summary, run.address, records)
        /\ faults' = faults
        /\ runs' = [runs EXCEPT ![r] = [run EXCEPT !.pc = "verify"]]
     \/ /\ faults < MaxFaults
        /\ faults' = faults + 1
        /\ summary' = summary
        /\ runs' = [runs EXCEPT ![r] = markReturns(run, "failed")]
  /\ UNCHANGED <<influencers, ledger, lastRun, calls>>

\* database.ts 240-258: the two verification queries; either may throw,
\* and the method then rethrows although both writes are done.
VerifySaved(r) ==
  LET run == runs[r] IN
  /\ run.pc = "verify"
  /\ \E outcome \in {"ok", "failed"} :
       /\ outcome = "failed" => faults < MaxFaults
       /\ faults' = faults + (IF outcome = "failed" THEN 1 ELSE 0)
       /\ runs' = [runs EXCEPT ![r] = markReturns(run, outcome)]
  /\ UNCHANGED <<influencers, ledger, summary, lastRun, calls>>

\* A caller other than the engine invokes
\* markSignalsAsProcessed(subscriberAddress, records) while no aggregation
\* execution is in flight.
DirectCall(r, subscriberAddress, records) ==
  /\ runs[r].pc = "idle"
  /\ \A q \in Runs : q < r => runs[q].pc = "done"
  /\ calls < MaxCalls
  /\ calls' = calls + 1
  /\ runs' = [runs EXCEPT ![r] =
       markEntry([IdleRun EXCEPT !.caller = "direct",
                                 !.address = subscriberAddress,
                                 !.before = [ledger |-> ledger,
                                             summary |-> summary]],
                 records)]
  /\ UNCHANGED <<influencers, ledger, summary, lastRun, faults>>

\* The engine never passes an empty list (line 213), so the empty-list call
\* is made by a direct caller.
EmptyCall(r) == \E a \in Addresses : DirectCall(r, a, <<>>)

NextAggregation ==
  \E r \in Runs :
    \/ EmptyCall(r)
    \/ StartRun(r)
    \/ BeginSubscriber(r)
    \/ NextInfluencer(r)
    \/ FinishRun(r)
    \/ FilterUnprocessed(r)
    \/ GetSummary(r)
    \/ InsertMany(r)
    \/ UpdateSummary(r)
    \/ VerifySaved(r)

Next == NextAggregation /\ UNCHANGED <<calc, exitVars, updVars, proc, cronVars>>

Spec == Init /\ [][Next]_vars

(***************************************************************************)
(* Executions of processAllInfluencerSignals that overlap                  *)
(*                                                                         *)
(* Nothing in processAllInfluencerSignals or in the store serialises two   *)
(* executions: a second one may start while the first is suspended at any  *)
(* of its awaits.                                                          *)
(***************************************************************************)
StartOverlappingRun(r) ==
  /\ runs[r].pc = "idle"
  /\ \E failed \in SUBSET { InfluencerNames[k] : k \in 1..Len(InfluencerNames) } :
       /\ faults + Cardinality(failed) <= MaxFaults
       /\ faults' = faults + Cardinality(failed)
       /\ LET sm == getRelevantSignals(influencers, failed)
          IN  runs' = [runs EXCEPT ![r] =
                [IdleRun EXCEPT !.pc = "subscriber", !.signalsMap = sm,
                                !.clean = (failed = {}),
                                !.summaryAtStart = summary,
                                !.ledgerAtStart = ledger]]
  /\ UNCHANGED <<influencers, ledger, summary, lastRun, calls>>

NextOverlap ==
  /\ \E r \in Runs :
       \/ StartOverlappingRun(r)
       \/ BeginSubscriber(r)
       \/ NextInfluencer(r)
       \/ FinishRun(r)
       \/ FilterUnprocessed(r)
       \/ GetSummary(r)
       \/ InsertMany(r)
       \/ UpdateSummary(r)
       \/ VerifySaved(r)
  /\ UNCHANGED <<calc, exitVars, updVars, proc, cronVars>>

\* Every subscription starts at time 0.
InitOverlap ==
  /\ Init
  /\ \A k \in 1..Len(influencers) : \A n \in 1..Len(influencers[k].subscribers) :
       influencers[k].subscribers[n].subscribedAt = 0

SpecOverlap == InitOverlap /\ [][NextOverlap]_vars

(***************************************************************************)
(* calculateFinalTradeValue applied to one input                           *)
(***************************************************************************)
\* stakeAmount in ETH: 100, 1, 0.5, 0, and amounts with a fraction of a wei.
CalcStakeAmounts ==
  { Dec(100, 0), Dec(1, 0), Dec(5, 0 - 1), Dec(0, 0),
    Dec(123, 0 - 18), Dec(37, 0 - 19) }

\* totalPnLPercentage as calculateTotalSumPnL prints it: "0%", a value
\* with two decimals, here from -150.00% to 100.00%, or an infinity; and a
\* string that does not parse.
CalcPnlHundredths ==
  { 0 - 15000, 0 - 10001, 0 - 10000, 0 - 9999, 0 - 250, 0 - 1,
    1, 1050, 3333, 10000 }

CalcPnlStrings ==
  { ToFixed2(h * (Scale \div 100)) \o <<"%">> : h \in CalcPnlHundredths }
    \cup { <<"0", "%">>, <<"n", "/", "a">>,
           InfinityChars \o <<"%">>, <<"-">> \o InfinityChars \o <<"%">> }

\* tradingAmount in wei, as the contract reports it: 2 ETH, 0.01 ETH, a few
\* wei, and none.
CalcTradingAmounts == { Dec(2, 18), Dec(1, 16), Dec(333, 0), Dec(7, 0), Dec(0, 0) }

InitCalc ==
  /\ influencers \in InfluencerDocs
  /\ ledger = <<>>
  /\ summary = EmptyMap
  /\ runs = [ r \in Runs |-> IdleRun ]
  /\ lastRun = [finished |-> 0, clean |-> FALSE, signalsMap |-> EmptyMap]
  /\ calls = 0
  /\ faults = 0
  /\ calc \in { [CalcIdle EXCEPT !.stakeAmount = a, !.pnl = p,
                                  !.tradingAmount = t] :
                  a \in CalcStakeAmounts, p \in CalcPnlStrings,
                  t \in CalcTradingAmounts }
  /\ stakeDocs = <<>>
  /\ now = NowStart
  /\ xrun = IdleExit
  /\ exitCalls = <<>>
  /\ chain = DefaultChain
  /\ upd = IdleUpdate
  /\ updateCalls = <<>>
  /\ tradeValueUpdates = <<>>
  /\ proc = IdleProcess
  /\ manager = IdleManager
  /\ jobs = NoJobs
  /\ db = NoConnection

ApplyCalc ==
  /\ ~ calc.done
  /\ calc' = [calc EXCEPT
        !.done = TRUE,
        !.number = finalTradeValueNumber(calc.stakeAmount, calc.pnl),
        !.text = calculateFinalTradeValue(calc.stakeAmount, calc.pnl)]
  /\ UNCHANGED <<aggVars, exitVars, updVars, proc, cronVars>>

ApplyNewTradeValue ==
  /\ ~ calc.doneNew
  /\ calc' = [calc EXCEPT
        !.doneNew = TRUE,
        !.newValue = calculateNewTradeValue(calc.tradingAmount, calc.pnl)]
  /\ UNCHANGED <<aggVars, exitVars, updVars, proc, cronVars>>

NextCalc ==
  \/ ApplyCalc
  \/ ApplyNewTradeValue

SpecCalc == InitCalc /\ [][NextCalc]_vars

(***************************************************************************)
(* processSignalsMain: the stake exit flow                                 *)
(***************************************************************************)
DefaultInfluencers ==
  CHOOSE d \in InfluencerDocs :
    \A k \in 1..Len(d) : \A n \in 1..Len(d[k].subscribers) :
      d[k].subscribers[n].subscribedAt = 0

InitExit ==
  /\ influencers = DefaultInfluencers
  /\ ledger = <<>>
  /\ summary = EmptyMap
  /\ runs = [ r \in Runs |-> IdleRun ]
  /\ lastRun = [finished |-> 0, clean |-> FALSE, signalsMap |-> EmptyMap]
  /\ calls = 0
  /\ faults = 0
  /\ calc = CalcIdle
  /\ stakeDocs \in StakeDocSets
  /\ now = NowStart
  /\ xrun = IdleExit
  /\ exitCalls = <<>>
  /\ chain = DefaultChain
  /\ upd = IdleUpdate
  /\ updateCalls = <<>>
  /\ tradeValueUpdates = <<>>
  /\ proc = IdleProcess
  /\ manager = IdleManager
  /\ jobs = NoJobs
  /\ db = NoConnection

exitFrame == UNCHANGED <<influencers, ledger, summary, runs, lastRun, calls,
                         calc, stakeDocs, now, updVars, proc, cronVars>>

\* A step of the flow that throws: the catch of processSignalsMain rethrows.
exitThrows ==
  /\ faults < MaxFaults
  /\ faults' = faults + 1
  /\ xrun' = [xrun EXCEPT !.pc = "threw", !.fatal = "step"]

\* The clock advances between and during executions.
Tick ==
  /\ now < NowStart + MaxTicks
  /\ now' = now + 1
  /\ UNCHANGED <<influencers, ledger, summary, runs, lastRun, calls, faults,
                 calc, stakeDocs, xrun, exitCalls, updVars, proc, cronVars>>

\* Variant: an entry that calls exitTrade for the first stake of the first
\* user before its checks.
StartExit_ExitsBeforeChecks ==
  /\ xrun.pc \in {"idle", "returned", "threw"}
  /\ xrun.n < MaxExitRuns
  /\ \/ /\ xrun' = [IdleExit EXCEPT !.pc = "stakes", !.n = xrun.n + 1]
        /\ UNCHANGED <<faults, exitCalls>>
     \/ /\ faults < MaxFaults
        /\ faults' = faults + 1
        /\ xrun' = [IdleExit EXCEPT !.pc = "threw", !.n = xrun.n + 1,
                                    !.fatal = "startup"]
        /\ exitCalls' = Append(exitCalls,
             [userAddress |-> "0xS1", stakeIndex |-> 0,
              finalValue |-> <<"0">>, ok |-> TRUE, run |-> xrun.n + 1])
  /\ exitFrame

\* processSignalsMain is entered: environment variables, blockchain health
\* check, connect and database health check.
StartExit ==
  /\ xrun.pc \in {"idle", "returned", "threw"}
  /\ xrun.n < MaxExitRuns
  /\ \/ /\ xrun' = [IdleExit EXCEPT !.pc = "stakes", !.n = xrun.n + 1]
        /\ UNCHANGED faults
     \/ /\ faults < MaxFaults
        /\ faults' = faults + 1
        /\ xrun' = [IdleExit EXCEPT !.pc = "threw", !.n = xrun.n + 1,
                                    !.fatal = "startup"]
  /\ UNCHANGED exitCalls
  /\ exitFrame

\* Step 1: getAllUserStakes and the statistics on it.
FetchStakes ==
  /\ xrun.pc = "stakes"
  /\ \/ /\ xrun' = [xrun EXCEPT
                      !.totalUsersWithStakes = Len(stakeDocs),
                      !.totalStakes =
                        Len(Flatten([ u \in 1..Len(stakeDocs) |->
                                        stakeDocs[u].stakes ])),
                      !.pc = IF Len(stakeDocs) = 0 THEN "returned"
                             ELSE "ready"]
        /\ UNCHANGED faults
     \/ exitThrows
  /\ UNCHANGED exitCalls
  /\ exitFrame

\* Step 2: getStakesReadyToExit at the current time.
CheckReady ==
  /\ xrun.pc = "ready"
  /\ \/ /\ LET ready == getStakesReadyToExit(stakeDocs, now)
               count == Len(readyList(ready))
           IN  xrun' = [xrun EXCEPT
                          !.stakesReadyToExit = ready,
                          !.stakesReadyCount = count,
                          !.checkedAt = now,
                          !.pc = IF count = 0 THEN "returned" ELSE "signals"]
        /\ UNCHANGED faults
     \/ exitThrows
  /\ UNCHANGED exitCalls
  /\ exitFrame

\* Step 3: getSignalsForStakeRanges.  getAllInfluencers may throw; a fetch
\* that throws is logged and leaves its influencer without an entry.
FetchSignals ==
  /\ xrun.pc = "signals"
  /\ \/ \E failed \in SUBSET { InfluencerNames[k] : k \in 1..Len(InfluencerNames) } :
          /\ faults + Cardinality(failed) <= MaxFaults
          /\ faults' = faults + Cardinality(failed)
          /\ xrun' = [xrun EXCEPT
                        !.signalsMap =
                          getSignalsForStakeRanges(xrun.stakesReadyToExit,
                                                   influencers, failed),
                        !.fetchFailed = failed,
                        !.pc = "process"]
     \/ exitThrows
  /\ UNCHANGED exitCalls
  /\ exitFrame

\* Step 4: processStakeExits.
ProcessExits ==
  /\ xrun.pc = "process"
  /\ \/ /\ LET results == processStakeExits(xrun.stakesReadyToExit,
                                            xrun.signalsMap, influencers)
           IN  xrun' = [xrun EXCEPT
                          !.results = results,
                          !.k = 1,
                          !.pc = IF Len(results) = 0 THEN "returned"
                                 ELSE "exit"]
        /\ UNCHANGED faults
     \/ exitThrows
  /\ UNCHANGED exitCalls
  /\ exitFrame

\* Variant: an iteration whose failure ends the run.
ExitTrade_AbortsOnFailure ==
  /\ xrun.pc = "exit"
  /\ xrun.k <= Len(xrun.results)
  /\ \/ /\ ~ IsIntegerLiteral(xrun.results[xrun.k].finalTradeValue)
        /\ xrun' = [xrun EXCEPT !.pc = "threw", !.fatal = "step",
                                 !.totalBlockchainErrors = @ + 1]
        /\ UNCHANGED <<faults, exitCalls>>
     \/ /\ IsIntegerLiteral(xrun.results[xrun.k].finalTradeValue)
        /\ \E ok \in BOOLEAN :
             /\ IF ok THEN UNCHANGED faults
                ELSE faults < MaxFaults /\ faults' = faults + 1
             /\ exitCalls' = Append(exitCalls,
                  [userAddress |-> xrun.results[xrun.k].walletAddress,
                   stakeIndex |-> xrun.results[xrun.k].stakeIndex,
                   finalValue |-> xrun.results[xrun.k].finalTradeValue,
                   ok |-> ok,
                   run |-> xrun.n])
             /\ xrun' = IF ok
                        THEN [xrun EXCEPT !.k = xrun.k + 1,
                                          !.totalBlockchainExits = @ + 1]
                        ELSE [xrun EXCEPT !.pc = "threw", !.fatal = "step",
                                          !.totalBlockchainErrors = @ + 1]
  /\ exitFrame

\* Variant: an iteration that records the signals of an exited stake in the
\* ledger.
ExitTrade_RecordsSignals ==
  /\ xrun.pc = "exit"
  /\ xrun.k <= Len(xrun.results)
  /\ \/ /\ ~ IsIntegerLiteral(xrun.results[xrun.k].finalTradeValue)
        /\ xrun' = [xrun EXCEPT !.k = xrun.k + 1,
                                 !.totalBlockchainErrors = @ + 1]
        /\ UNCHANGED <<faults, exitCalls, ledger>>
     \/ /\ IsIntegerLiteral(xrun.results[xrun.k].finalTradeValue)
        /\ \E ok \in BOOLEAN :
             /\ IF ok THEN UNCHANGED faults
                ELSE faults < MaxFaults /\ faults' = faults + 1
             /\ exitCalls' = Append(exitCalls,
                  [userAddress |-> xrun.results[xrun.k].walletAddress,
                   stakeIndex |-> xrun.results[xrun.k].stakeIndex,
                   finalValue |-> xrun.results[xrun.k].finalTradeValue,
                   ok |-> ok,
                   run |-> xrun.n])
             /\ ledger' =
                  IF ok
                  THEN ledger \o
                       [ n \in 1..Len(xrun.results[xrun.k].signals) |->
                           [subscriberAddress |-> xrun.results[xrun.k].walletAddress,
                            signalId |-> xrun.results[xrun.k].signals[n]._id,
                            influencerName |-> xrun.results[xrun.k].signals[n].account,
                            finalPnL |-> xrun.results[xrun.k].signals[n].pnl,
                            signalGenerationDate |->
                              xrun.results[xrun.k].signals[n].date] ]
                  ELSE ledger
             /\ xrun' = [xrun EXCEPT
                           !.k = xrun.k + 1,
                           !.totalBlockchainExits =
                             IF ok THEN @ + 1 ELSE @,
                           !.totalBlockchainErrors =
                             IF ok THEN @ ELSE @ + 1]
  /\ UNCHANGED <<influencers, summary, runs, lastRun, calls,
                 calc, stakeDocs, now, updVars, proc, cronVars>>

\* Step 5, one iteration: exitTrade for the next result.  When
\* BigInt(finalTradeValue) throws, the catch of the iteration counts an
\* error and no call is made; exitTrade returns false when the contract
\* write throws.
ExitTrade ==
  /\ xrun.pc = "exit"
  /\ xrun.k <= Len(xrun.results)
  /\ \/ /\ ~ IsIntegerLiteral(xrun.results[xrun.k].finalTradeValue)
        /\ xrun' = [xrun EXCEPT !.k = xrun.k + 1,
                                 !.totalBlockchainErrors = @ + 1]
        /\ UNCHANGED <<faults, exitCalls>>
     \/ /\ IsIntegerLiteral(xrun.results[xrun.k].finalTradeValue)
        /\ \E ok \in BOOLEAN :
             /\ IF ok THEN UNCHANGED faults
                ELSE faults < MaxFaults /\ faults' = faults + 1
             /\ exitCalls' = Append(exitCalls,
                  [userAddress |-> xrun.results[xrun.k].walletAddress,
                   stakeIndex |-> xrun.results[xrun.k].stakeIndex,
                   finalValue |-> xrun.results[xrun.k].finalTradeValue,
                   ok |-> ok,
                   run |-> xrun.n])
             /\ xrun' = [xrun EXCEPT
                           !.k = xrun.k + 1,
                           !.totalBlockchainExits =
                             IF ok THEN @ + 1 ELSE @,
                           !.totalBlockchainErrors =
                             IF ok THEN @ ELSE @ + 1]
  /\ exitFrame

\* The loop of step 5 is over: the statistics are returned.
FinishExit ==
  /\ xrun.pc = "exit"
  /\ xrun.k > Len(xrun.results)
  /\ xrun' = [xrun EXCEPT !.pc = "returned"]
  /\ UNCHANGED <<faults, exitCalls>>
  /\ exitFrame

NextExit ==
  \/ Tick
  \/ StartExit
  \/ FetchStakes
  \/ CheckReady
  \/ FetchSignals
  \/ ProcessExits
  \/ ExitTrade
  \/ FinishExit

SpecExit == InitExit /\ [][NextExit]_vars

\* start without the check of line 40.
start_Unguarded(m) ==
  [m EXCEPT !.cronJob = TRUE, !.tasks = @ + 1, !.timer = @ \/ m.runImmediately]

\* CronJobManager.start (index.ts 40-63).
start(m) ==
  IF m.cronJob THEN m
  ELSE [m EXCEPT !.cronJob = TRUE, !.tasks = @ + 1,
                 !.timer = @ \/ m.runImmediately]

(***************************************************************************)
(* index.ts: main()                                                        *)
(*                                                                         *)
(* proc.pc is "load" while the modules are evaluated, "main" at the entry   *)
(* of main, "awaiting" at the await of                                     *)
(* line 171, "serving" once the scheduler is started, and "exited" after   *)
(* process.exit.  The firings of the scheduled task are not part of this   *)
(* specification.                                                          *)
(***************************************************************************)
InitMain ==
  /\ influencers = DefaultInfluencers
  /\ ledger = <<>>
  /\ summary = EmptyMap
  /\ runs = [ r \in Runs |-> IdleRun ]
  /\ lastRun = [finished |-> 0, clean |-> FALSE, signalsMap |-> EmptyMap]
  /\ calls = 0
  /\ faults = 0
  /\ calc = CalcIdle
  /\ stakeDocs \in StakeDocSets
  /\ now = NowStart
  /\ xrun = IdleExit
  /\ exitCalls = <<>>
  /\ chain = DefaultChain
  /\ upd = IdleUpdate
  /\ updateCalls = <<>>
  /\ tradeValueUpdates = <<>>
  /\ \E cronEnabled \in BOOLEAN, privateKey \in BOOLEAN, mongoUri \in BOOLEAN :
       proc = [IdleProcess EXCEPT !.cronEnabled = cronEnabled,
                                  !.privateKey = privateKey,
                                  !.mongoUri = mongoUri]
  /\ manager = IdleManager
  /\ jobs = NoJobs
  /\ db = NoConnection

mainFrame == UNCHANGED <<aggVars, calc, exitVars, updVars, jobs, db>>

\* The imports of index.ts are evaluated: database.ts throws at its top
\* level without MONGODB_URI (lines 643-647), which ends the process with
\* code 1 before main is called; otherwise main is called (index.ts 226).
MainLoad ==
  /\ proc.pc = "load"
  /\ proc' = IF proc.mongoUri
             THEN [proc EXCEPT !.pc = "main"]
             ELSE [proc EXCEPT !.pc = "exited", !.exitCode = 1]
  /\ UNCHANGED manager
  /\ mainFrame

\* Lines 166-171: cron is disabled, processSignalsMain is called.
MainRunOnce ==
  /\ proc.pc = "main"
  /\ ~ proc.cronEnabled
  /\ proc' = [proc EXCEPT !.pc = "awaiting", !.calls = @ + 1]
  /\ UNCHANGED manager
  /\ mainFrame

\* The call enters processSignalsMain; a missing environment variable makes
\* its validation throw (processSignals.ts 41-47).
MainEnter ==
  /\ proc.pc = "awaiting"
  /\ xrun.n < proc.calls
  /\ StartExit
  /\ ~ proc.privateKey => xrun'.pc = "threw"

\* processSignalsMain runs while main is suspended at line 171.
MainAwait ==
  /\ proc.pc = "awaiting"
  /\ xrun.n = proc.calls
  /\ \/ Tick
     \/ FetchStakes
     \/ CheckReady
     \/ FetchSignals
     \/ ProcessExits
     \/ ExitTrade
     \/ FinishExit

\* Variant: exit code 0 whatever the outcome of the run.
MainExit_AlwaysZero ==
  /\ proc.pc = "awaiting"
  /\ xrun.n = proc.calls
  /\ xrun.pc \in {"returned", "threw"}
  /\ proc' = [proc EXCEPT !.pc = "exited", !.exitCode = 0]
  /\ UNCHANGED manager
  /\ mainFrame

\* Lines 172-177: process.exit(0) after the call returned, process.exit(1)
\* in the catch.
MainExit ==
  /\ proc.pc = "awaiting"
  /\ xrun.n = proc.calls
  /\ xrun.pc \in {"returned", "threw"}
  /\ proc' = [proc EXCEPT !.pc = "exited",
                          !.exitCode = IF xrun.pc = "returned" THEN 0 ELSE 1]
  /\ UNCHANGED manager
  /\ mainFrame

\* Lines 181-209: cron is enabled; a missing environment variable ends the
\* process with code 1, otherwise CronJobManager.start schedules the task.
MainStartCron ==
  /\ proc.pc = "main"
  /\ proc.cronEnabled
  /\ proc' = IF proc.privateKey /\ proc.mongoUri
             THEN [proc EXCEPT !.pc = "serving"]
             ELSE [proc EXCEPT !.pc = "exited", !.exitCode = 1]
  /\ manager' = IF proc.privateKey /\ proc.mongoUri
                THEN start(manager)
                ELSE manager
  /\ mainFrame

NextMain ==
  \/ MainLoad
  \/ MainRunOnce
  \/ MainEnter
  \/ MainAwait
  \/ MainExit
  \/ MainStartCron

SpecMain == InitMain /\ [][NextMain]_vars

(***************************************************************************)
(* index.ts: CronJobManager, with the processSignalsMain executions it     *)
(* starts and the databaseManager singleton they share                     *)
(*                                                                         *)
(* start and stop are called by any caller, any number of times within     *)
(* MaxManagerCalls (main calls start once; the signal handlers call stop). *)
(* node-cron calls the callback of a started task at every matching        *)
(* minute, whether or not an earlier call has settled; the timer of        *)
(* RUN_IMMEDIATELY calls executeJob once.                                  *)
(*                                                                         *)
(* jobs[j].pc is the await at which the execution is suspended:            *)
(*   "start"       blockchainManager.healthCheck     (processSignals 54)   *)
(*   "connect"     databaseManager.connect           (processSignals 61)   *)
(*   "connecting"  client.connect inside connect     (database 27)         *)
(*   "health"      databaseManager.healthCheck       (processSignals 64)   *)
(*   "stakes"      getAllUserStakes                  (processSignals 71)   *)
(*   "ready"       getStakesReadyToExit              (processSignals 89)   *)
(*   "signals"     getSignalsForStakeRanges          (processSignals 104)  *)
(*   "process"     processStakeExits                 (processSignals 114)  *)
(*   "exit"        the exitTrade loop                (processSignals 129)  *)
(*   "finally"     databaseManager.disconnect        (processSignals 185)  *)
(*   "settle"      processSignalsMain has ended      (index.ts 91-119)     *)
(* db.closedBy is history: the execution whose disconnect cleared the      *)
(* references last, 0 when they were not cleared since the last connect.   *)
(***************************************************************************)
InitCron ==
  /\ influencers = DefaultInfluencers
  /\ ledger = <<>>
  /\ summary = EmptyMap
  /\ runs = [ r \in Runs |-> IdleRun ]
  /\ lastRun = [finished |-> 0, clean |-> FALSE, signalsMap |-> EmptyMap]
  /\ calls = 0
  /\ faults = 0
  /\ calc = CalcIdle
  /\ stakeDocs = <<>>
  /\ now = NowStart
  /\ xrun = IdleExit
  /\ exitCalls = <<>>
  /\ chain = DefaultChain
  /\ upd = IdleUpdate
  /\ updateCalls = <<>>
  /\ tradeValueUpdates = <<>>
  /\ proc = IdleProcess
  /\ \E runImmediately \in BOOLEAN :
       manager = [IdleManager EXCEPT !.runImmediately = runImmediately]
  /\ jobs = NoJobs
  /\ db = NoConnection

cronFrame == UNCHANGED <<influencers, ledger, summary, runs, lastRun, calls,
                         calc, exitVars, updVars, proc>>

\* CronJobManager.stop (index.ts 68-74).
stop(m) ==
  IF m.cronJob THEN [m EXCEPT !.cronJob = FALSE, !.tasks = @ - 1]
  ELSE m

Start ==
  /\ manager.managerCalls < MaxManagerCalls
  /\ manager' = [start(manager) EXCEPT !.managerCalls = @ + 1,
                                       !.lastCall = "start",
                                       !.found = manager.cronJob]
  /\ UNCHANGED <<faults, jobs, db>>
  /\ cronFrame

Stop ==
  /\ manager.managerCalls < MaxManagerCalls
  /\ manager' = [stop(manager) EXCEPT !.managerCalls = @ + 1,
                                      !.lastCall = "stop",
                                      !.found = manager.cronJob]
  /\ UNCHANGED <<faults, jobs, db>>
  /\ cronFrame

\* executeJob up to its await (index.ts 79-91): totalRuns is incremented
\* and processSignalsMain is entered; a missing environment variable is a
\* throw of its validation.
enterJob(j) ==
  /\ jobs[j].pc = "idle"
  /\ manager.totalRuns < MaxJobRuns
  /\ jobs' = [jobs EXCEPT ![j] = [IdleJob EXCEPT !.pc = "start"]]
  /\ UNCHANGED <<faults, db>>
  /\ cronFrame

\* A matching minute of a started task: the callback of line 48 runs.
CronTick ==
  /\ manager.tasks > 0
  /\ manager' = [manager EXCEPT !.totalRuns = @ + 1]
  /\ \E j \in Jobs : enterJob(j)

\* The timer of line 60 fires.
TimerFires ==
  /\ manager.timer
  /\ manager' = [manager EXCEPT !.timer = FALSE, !.totalRuns = @ + 1]
  /\ \E j \in Jobs : enterJob(j)

jobThrows(j) == [jobs[j] EXCEPT !.pc = "finally", !.outcome = "threw"]

jobReturns(j) == [jobs[j] EXCEPT !.pc = "finally", !.outcome = "returned"]

\* processSignals.ts 41-57: validation and blockchain health check.
JobStart(j) ==
  /\ jobs[j].pc = "start"
  /\ \/ /\ jobs' = [jobs EXCEPT ![j].pc = "connect"]
        /\ UNCHANGED faults
     \/ /\ faults < MaxFaults
        /\ faults' = faults + 1
        /\ jobs' = [jobs EXCEPT ![j] = jobThrows(j)]
  /\ UNCHANGED <<manager, db>>
  /\ cronFrame

\* database.ts 19-27: connect returns at once when a client exists,
\* otherwise it creates the client and awaits client.connect.
JobConnect(j) ==
  /\ jobs[j].pc = "connect"
  /\ IF db.client
     THEN /\ jobs' = [jobs EXCEPT ![j].pc = "health"]
          /\ UNCHANGED db
     ELSE /\ jobs' = [jobs EXCEPT ![j].pc = "connecting"]
          /\ db' = [db EXCEPT !.client = TRUE, !.closedBy = 0]
  /\ UNCHANGED <<manager, faults>>
  /\ cronFrame

\* database.ts 27-39: client.connect resolves and the references are set,
\* or it throws.
JobConnected(j) ==
  /\ jobs[j].pc = "connecting"
  /\ \/ /\ jobs' = [jobs EXCEPT ![j].pc = "health"]
        /\ db' = [db EXCEPT !.refs = db.client]
        /\ UNCHANGED faults
     \/ /\ faults < MaxFaults
        /\ faults' = faults + 1
        /\ jobs' = [jobs EXCEPT ![j] = jobThrows(j)]
        /\ UNCHANGED db
  /\ UNCHANGED manager
  /\ cronFrame

\* database.ts 482-495 and processSignals.ts 64-67: false without a client
\* or when the ping throws, and false makes processSignalsMain throw.
JobHealth(j) ==
  /\ jobs[j].pc = "health"
  /\ \/ /\ db.client
        /\ jobs' = [jobs EXCEPT ![j].pc = "stakes", ![j].healthy = TRUE]
        /\ UNCHANGED faults
     \/ /\ ~ db.client
        /\ jobs' = [jobs EXCEPT ![j] = jobThrows(j)]
        /\ UNCHANGED faults
     \/ /\ db.client
        /\ faults < MaxFaults
        /\ faults' = faults + 1
        /\ jobs' = [jobs EXCEPT ![j] = jobThrows(j)]
  /\ UNCHANGED <<manager, db>>
  /\ cronFrame

\* The pc after a database step that found something to go on with.
afterStep(pc) ==
  CASE pc = "stakes" -> "ready"
    [] pc = "ready" -> "signals"
    [] pc = "signals" -> "process"
    [] pc = "process" -> "exit"

\* One database step of processSignalsMain (lines 71, 89, 104, 114).  Its
\* collection getter throws when the reference is null (database.ts
\* 65-120); otherwise the step goes on, or returns early (no stakes, none
\* ready, no results), or throws.
JobDatabaseStep(j) ==
  /\ jobs[j].pc \in {"stakes", "ready", "signals", "process"}
  /\ \/ /\ db.refs
        /\ jobs' = [jobs EXCEPT ![j].pc = afterStep(jobs[j].pc)]
        /\ UNCHANGED faults
     \/ /\ db.refs
        /\ jobs[j].pc # "signals"
        /\ jobs' = [jobs EXCEPT ![j] = jobReturns(j)]
        /\ UNCHANGED faults
     \/ /\ db.refs
        /\ faults < MaxFaults
        /\ faults' = faults + 1
        /\ jobs' = [jobs EXCEPT ![j] = jobThrows(j)]
     \/ /\ ~ db.refs
        /\ jobs' = [jobs EXCEPT ![j] =
             [jobThrows(j) EXCEPT !.lost = jobs[j].healthy /\ db.closedBy # 0]]
        /\ UNCHANGED faults
  /\ UNCHANGED <<manager, db>>
  /\ cronFrame

\* processSignals.ts 129-176: the exitTrade loop catches its errors and
\* uses no database; the statistics are returned.
JobExitLoop(j) ==
  /\ jobs[j].pc = "exit"
  /\ jobs' = [jobs EXCEPT ![j] = jobReturns(j)]
  /\ UNCHANGED <<manager, faults, db>>
  /\ cronFrame

\* processSignals.ts 182-190 and database.ts 45-60: the finally block
\* disconnects the singleton; with a client, close is awaited and client
\* and references are set to null; an error of close is logged.
JobFinally(j) ==
  /\ jobs[j].pc = "finally"
  /\ jobs' = [jobs EXCEPT ![j].pc = "settle"]
  /\ \/ /\ db' = IF db.client
                  THEN [client |-> FALSE, refs |-> FALSE, closedBy |-> j]
                  ELSE db
        /\ UNCHANGED faults
     \/ /\ db.client
        /\ faults < MaxFaults
        /\ faults' = faults + 1
        /\ UNCHANGED db
  /\ UNCHANGED manager
  /\ cronFrame

\* executeJob without its catch block: a throw is not counted.
settle_Uncaught(m, outcome) ==
  IF outcome = "returned" THEN [m EXCEPT !.successfulRuns = @ + 1] ELSE m

\* index.ts 91-119: the try block counts a success, the catch block a
\* failure.
settle(m, outcome) ==
  IF outcome = "returned"
  THEN [m EXCEPT !.successfulRuns = @ + 1]
  ELSE [m EXCEPT !.failedRuns = @ + 1]

\* index.ts 93-122: processSignalsMain has settled; the execution is
\* counted and executeJob returns.
JobSettle(j) ==
  /\ jobs[j].pc = "settle"
  /\ manager' = settle(manager, jobs[j].outcome)
  /\ jobs' = [jobs EXCEPT ![j] = IdleJob]
  /\ UNCHANGED <<faults, db>>
  /\ cronFrame

NextCron ==
  \/ Start
  \/ Stop
  \/ CronTick
  \/ TimerFires
  \/ \E j \in Jobs :
       \/ JobStart(j)
       \/ JobConnect(j)
       \/ JobConnected(j)
       \/ JobHealth(j)
       \/ JobDatabaseStep(j)
       \/ JobExitLoop(j)
       \/ JobFinally(j)
       \/ JobSettle(j)

SpecCron == InitCron /\ [][NextCron]_vars

(***************************************************************************)
(* calculateTotalSumPnL applied to one list of signals                     *)
(***************************************************************************)
MaxEntries == 3

\* "Final P&L" strings: values with two and with three decimals (all of
\* them exact binary fractions), an unparseable one and the infinities.
SumEntryStrings ==
  { <<"1", "0", ".", "0", "0", "%">>,
    <<"-", "2", ".", "6", "2", "5", "%">>,
    <<"0", ".", "1", "2", "5", "%">>,
    <<"n", "/", "a">>,
    InfinityChars \o <<"%">>,
    <<"-">> \o InfinityChars \o <<"%">> }

SumInputs ==
  UNION { [1..n -> SumEntryStrings] : n \in 0..MaxEntries }

\* The list as ProcessedSignal objects (signalProcessor.ts) and as
\* BacktestingSignal documents (stakeExitProcessor.ts).
AsProcessedSignals(entries) ==
  [ n \in 1..Len(entries) |-> [signalId |-> n, finalPnL |-> entries[n]] ]

AsBacktestingSignals(entries) ==
  [ n \in 1..Len(entries) |-> [_id |-> n, pnl |-> entries[n]] ]

InitSum ==
  /\ influencers = DefaultInfluencers
  /\ ledger = <<>>
  /\ summary = EmptyMap
  /\ runs = [ r \in Runs |-> IdleRun ]
  /\ lastRun = [finished |-> 0, clean |-> FALSE, signalsMap |-> EmptyMap]
  /\ calls = 0
  /\ faults = 0
  /\ calc \in { [CalcIdle EXCEPT !.entries = e] : e \in SumInputs }
  /\ stakeDocs = <<>>
  /\ now = NowStart
  /\ xrun = IdleExit
  /\ exitCalls = <<>>
  /\ chain = DefaultChain
  /\ upd = IdleUpdate
  /\ updateCalls = <<>>
  /\ tradeValueUpdates = <<>>
  /\ proc = IdleProcess
  /\ manager = IdleManager
  /\ jobs = NoJobs
  /\ db = NoConnection

\* calculateTotalSumPnL of signalProcessor.ts
ApplySum ==
  /\ ~ calc.doneSum
  /\ calc' = [calc EXCEPT
        !.doneSum = TRUE,
        !.sumText = calculateTotalSumPnL(AsProcessedSignals(calc.entries))]
  /\ UNCHANGED <<aggVars, exitVars, updVars, proc, cronVars>>

\* calculateTotalSumPnL of stakeExitProcessor.ts
ApplySumOfSignals ==
  /\ ~ calc.doneSumOfSignals
  /\ calc' = [calc EXCEPT
        !.doneSumOfSignals = TRUE,
        !.sumOfSignalsText =
          calculateTotalSumPnLOfSignals(AsBacktestingSignals(calc.entries))]
  /\ UNCHANGED <<aggVars, exitVars, updVars, proc, cronVars>>

NextSum ==
  \/ ApplySum
  \/ ApplySumOfSignals

SpecSum == InitSum /\ [][NextSum]_vars

(***************************************************************************)
(* updateUserTradesWithSignals: the periodic value update of one user      *)
(*                                                                         *)
(* getStakeCount, getStakeDetails, updateTradeValue and                    *)
(* calculateNewTradeValue catch their own errors, so the outer catch of    *)
(* updateUserTradesWithSignals (lines 266-269) has nothing left to catch.  *)
(***************************************************************************)
MaxUpdateRuns == 2

\* The rows and the summary document a finished aggregation batch of the
\* first subscriber of the first influencer leaves behind.
SettledBatch ==
  LET influencer == DefaultInfluencers[1]
      subscriber == influencer.subscribers[1]
      valid == filterValidSignals(
                 getSignalsInDateRange(influencer.name,
                                       subscriber.subscribedAt,
                                       subscriber.subscribedAt + SevenDaysMs))
  IN  processedSignalRecords(
        processSubscriberSignals(subscriber, influencer,
                                 relevantSignalsOf(valid, subscriber)))

\* totalSumPnL as the aggregation prints it, and a string that does not
\* parse.
UpdatePnlStrings ==
  { ToFixed2(1050 * (Scale \div 100)) \o <<"%">>,
    ToFixed2((0 - 15000) * (Scale \div 100)) \o <<"%">>,
    <<"0", "%">>,
    <<"n", "/", "a">> }

InitUpdate ==
  /\ influencers = DefaultInfluencers
  /\ ledger = SettledBatch
  /\ summary = upsertSummary(EmptyMap, SettledBatch[1].subscriberAddress,
                             SettledBatch)
  /\ runs = [ r \in Runs |-> IdleRun ]
  /\ lastRun = [finished |-> 0, clean |-> FALSE, signalsMap |-> EmptyMap]
  /\ calls = 0
  /\ faults = 0
  /\ calc = CalcIdle
  /\ stakeDocs = <<>>
  /\ now = NowStart
  /\ xrun = IdleExit
  /\ exitCalls = <<>>
  /\ chain \in ChainStates
  /\ upd = IdleUpdate
  /\ updateCalls = <<>>
  /\ tradeValueUpdates = <<>>
  /\ proc = IdleProcess
  /\ manager = IdleManager
  /\ jobs = NoJobs
  /\ db = NoConnection

updateFrame == UNCHANGED <<influencers, ledger, summary, runs, lastRun, calls,
                           calc, exitVars, chain, proc, cronVars>>

\* updateUserTradesWithSignals is entered and reads the stake count;
\* getStakeCount returns 0 when the contract read throws.
StartUpdate ==
  /\ upd.pc \in {"idle", "returned"}
  /\ upd.n < MaxUpdateRuns
  /\ \E userAddress \in Addresses, totalSumPnL \in UpdatePnlStrings,
        readOk \in BOOLEAN :
       /\ IF readOk THEN UNCHANGED faults
          ELSE faults < MaxFaults /\ faults' = faults + 1
       /\ upd' = [IdleUpdate EXCEPT
                    !.pc = "loop",
                    !.n = upd.n + 1,
                    !.userAddress = userAddress,
                    !.totalSumPnL = totalSumPnL,
                    !.stakeCount = IF readOk THEN Len(chain[userAddress])
                                   ELSE 0]
  /\ UNCHANGED <<updateCalls, tradeValueUpdates>>
  /\ updateFrame

\* Variant: the percentage applied to the value of the last update.
valuationBase_CurrentValue(stakeDetails) == stakeDetails.currentTradeValue

\* The amount the percentage is applied to (blockchain.ts 227-230).
valuationBase(stakeDetails) == stakeDetails.tradingAmount

\* One loop iteration up to the contract write: getStakeDetails returns
\* null when the read throws; a null, inactive or non-trading stake is
\* skipped.
ReadStake ==
  /\ upd.pc = "loop"
  /\ upd.i < upd.stakeCount
  /\ \E readOk \in BOOLEAN :
       /\ IF readOk THEN UNCHANGED faults
          ELSE faults < MaxFaults /\ faults' = faults + 1
       /\ LET stakeDetails == chain[upd.userAddress][upd.i + 1]
          IN  IF ~ readOk \/ ~ stakeDetails.active \/ ~ stakeDetails.tradeActive
              THEN upd' = [upd EXCEPT !.i = upd.i + 1]
              ELSE upd' = [upd EXCEPT
                             !.pc = "update",
                             !.newTradeValue =
                               calculateNewTradeValue(
                                 valuationBase(stakeDetails),
                                 upd.totalSumPnL)]
  /\ UNCHANGED <<updateCalls, tradeValueUpdates>>
  /\ updateFrame

\* Variant: a failed write that ends the loop and removes the user's
\* ledger rows.
UpdateTradeValue_RollsBackOnFailure ==
  /\ upd.pc = "update"
  /\ \E success \in BOOLEAN :
       /\ IF success THEN UNCHANGED faults
          ELSE faults < MaxFaults /\ faults' = faults + 1
       /\ updateCalls' = Append(updateCalls,
            [userAddress |-> upd.userAddress, stakeIndex |-> upd.i,
             newValue |-> upd.newTradeValue, success |-> success,
             run |-> upd.n, pnl |-> upd.totalSumPnL])
       /\ upd' = IF success
                 THEN [upd EXCEPT !.updated = @ + 1, !.pc = "store"]
                 ELSE [upd EXCEPT !.errors = @ + 1, !.pc = "returned"]
       /\ ledger' = IF success THEN ledger
                    ELSE SelectSeq(ledger,
                           LAMBDA row : row.subscriberAddress # upd.userAddress)
  /\ UNCHANGED tradeValueUpdates
  /\ UNCHANGED <<influencers, summary, runs, lastRun, calls, calc, exitVars,
                 chain, proc, cronVars>>

\* updateTradeValue: success, or {success: false} when the contract write
\* throws.  The contract stores the value it is given as the current trade
\* value of the stake and leaves its trading amount alone.
UpdateTradeValue ==
  /\ upd.pc = "update"
  /\ \E success \in BOOLEAN :
       /\ IF success THEN UNCHANGED faults
          ELSE faults < MaxFaults /\ faults' = faults + 1
       /\ updateCalls' = Append(updateCalls,
            [userAddress |-> upd.userAddress, stakeIndex |-> upd.i,
             newValue |-> upd.newTradeValue, success |-> success,
             run |-> upd.n, pnl |-> upd.totalSumPnL])
       /\ upd' = IF success
                 THEN [upd EXCEPT !.updated = @ + 1, !.pc = "store"]
                 ELSE [upd EXCEPT !.errors = @ + 1, !.i = upd.i + 1,
                                  !.pc = "loop"]
       /\ chain' = IF success
                   THEN [chain EXCEPT
                           ![upd.userAddress][upd.i + 1].currentTradeValue =
                             upd.newTradeValue]
                   ELSE chain
  /\ UNCHANGED tradeValueUpdates
  /\ UNCHANGED <<influencers, ledger, summary, runs, lastRun, calls, calc,
                 exitVars, proc, cronVars>>

\* storeTradeValueUpdate after a successful write; its error is logged and
\* dropped (lines 255-257).
StoreTradeValueUpdate ==
  /\ upd.pc = "store"
  /\ \E stored \in BOOLEAN :
       /\ IF stored THEN UNCHANGED faults
          ELSE faults < MaxFaults /\ faults' = faults + 1
       /\ tradeValueUpdates' =
            IF stored
            THEN Append(tradeValueUpdates,
                   [subscriberAddress |-> upd.userAddress,
                    stakeIndex |-> upd.i,
                    originalTradingAmount |->
                      DecToString(chain[upd.userAddress][upd.i + 1].tradingAmount),
                    newTradeValue |-> DecToString(upd.newTradeValue),
                    pnlPercentage |-> upd.totalSumPnL,
                    run |-> upd.n])
            ELSE tradeValueUpdates
  /\ upd' = [upd EXCEPT !.i = upd.i + 1, !.pc = "loop"]
  /\ UNCHANGED updateCalls
  /\ updateFrame

\* The loop is over: {updated, errors} is returned.
ReturnUpdate ==
  /\ upd.pc = "loop"
  /\ upd.i >= upd.stakeCount
  /\ upd' = [upd EXCEPT !.pc = "returned"]
  /\ UNCHANGED <<faults, updateCalls, tradeValueUpdates>>
  /\ updateFrame

NextUpdate ==
  \/ StartUpdate
  \/ ReadStake
  \/ UpdateTradeValue
  \/ StoreTradeValueUpdate
  \/ ReturnUpdate

SpecUpdate == InitUpdate /\ [][NextUpdate]_vars

(***************************************************************************)
(* The stake exit flow and the periodic value update over a store that     *)
(* already holds a finished aggregation batch                              *)
(***************************************************************************)
InitWrites ==
  /\ influencers = DefaultInfluencers
  /\ ledger = SettledBatch
  /\ summary = upsertSummary(EmptyMap, SettledBatch[1].subscriberAddress,
                             SettledBatch)
  /\ runs = [ r \in Runs |-> IdleRun ]
  /\ lastRun = [finished |-> 0, clean |-> FALSE, signalsMap |-> EmptyMap]
  /\ calls = 0
  /\ faults = 0
  /\ calc = CalcIdle
  /\ stakeDocs \in StakeDocSets
  /\ now \in NowStart..(NowStart + MaxTicks)
  /\ xrun = IdleExit
  /\ exitCalls = <<>>
  /\ chain = DefaultChain
  /\ upd = IdleUpdate
  /\ updateCalls = <<>>
  /\ tradeValueUpdates = <<>>
  /\ proc = IdleProcess
  /\ manager = IdleManager
  /\ jobs = NoJobs
  /\ db = NoConnection

\* One execution of processSignalsMain, then one of
\* updateUserTradesWithSignals.
NextWrites ==
  \/ /\ upd.n = 0
     /\ \/ xrun.n = 0 /\ StartExit
        \/ FetchStakes
        \/ CheckReady
        \/ FetchSignals
        \/ ProcessExits
        \/ ExitTrade
        \/ FinishExit
  \/ /\ xrun.pc \in {"returned", "threw"}
     /\ \/ upd.n = 0 /\ StartUpdate
        \/ ReadStake
        \/ UpdateTradeValue
        \/ StoreTradeValueUpdate
        \/ ReturnUpdate

SpecWrites == InitWrites /\ [][NextWrites]_vars

(***************************************************************************)
(* Vocabulary of the properties                                            *)
(***************************************************************************)
MarkInProgress(r) == runs[r].pc \in {"insert", "update", "verify"}

\* Sum of the parsed finalPnL of the subscriber's ledger rows.
RECURSIVE LedgerSum(_, _)
LedgerSum(rows, subscriberAddress) ==
  IF rows = <<>> THEN Num(0)
  ELSE LET v == ParsePercent(Head(rows).finalPnL)
           this == IF Head(rows).subscriberAddress = subscriberAddress
                      /\ ~isNaN(v)
                   THEN v ELSE Num(0)
       IN  NumAdd(this, LedgerSum(Tail(rows), subscriberAddress))

SummaryTotal(subscriberAddress) ==
  IF subscriberAddress \in DOMAIN summary
  THEN summary[subscriberAddress].totalPnLPercentage
  ELSE Num(0)

\* A number that is neither NaN nor an infinity.
isFinite(x) == ~ x.nan /\ x.inf = 0

SignalIds(signals) == [ n \in 1..Len(signals) |-> signals[n]._id ]

BatchIds(batch) == [ n \in 1..Len(batch) |-> batch[n].signalId ]

\* The subscription dates of an address under an influencer name.
SubscribedAtOf(influencerName, subscriberAddress) ==
  { influencers[k].subscribers[n].subscribedAt :
      <<k, n>> \in { sl \in SubscriptionSlots :
                       /\ sl[2] <= Len(influencers[sl[1]].subscribers)
                       /\ influencers[sl[1]].name = influencerName
                       /\ influencers[sl[1]].subscribers[sl[2]].address
                            = subscriberAddress } }

\* C1. After any sequence of aggregation runs, failed ledger reads and
\* failed ledger writes included, the ledger holds no two rows with the
\* same (subscriberAddress, signalId).
C1_NoDuplicateLedgerPair ==
  \A m, n \in 1..Len(ledger) :
    (m # n) =>
      ~ (/\ ledger[m].subscriberAddress = ledger[n].subscriberAddress
         /\ ledger[m].signalId = ledger[n].signalId)

\* C2. A run that follows a run over the same signalsMap, with no store
\* operation throwing in either, inserts no row, leaves every summary
\* document as it was and emits no result.
C2_SecondRunIsNoOp ==
  \A r \in Runs :
    (runs[r].repeat /\ runs[r].clean) =>
      /\ runs[r].inserted = 0
      /\ runs[r].results = EmptyMap
      /\ summary = runs[r].summaryAtStart
      /\ ~ MarkInProgress(r)

C2_Witness ==
  \E r \in Runs :
    /\ runs[r].pc = "done" /\ runs[r].repeat /\ runs[r].clean
    /\ Len(ledger) >= 3
    /\ DOMAIN summary = Addresses

\* C3. The window filter keeps a valid signal generated at t for a
\* subscriber subscribed at T0 exactly when T0 < t <= T0 + 7 days: each
\* step that applies the filter leaves in `relevant` the valid signals of
\* the influencer that satisfy the inequality, and no other.
C3_Step(r) ==
  LET run == runs[r]
      influencer == influencers[run.i]
      T0 == influencer.subscribers[run.j].subscribedAt
      valid == filterValidSignals(signalsOf(run.signalsMap, influencer.name))
      expected == SelectSeq(valid,
                    LAMBDA sig : T0 < sig.date /\ sig.date <= T0 + 604800000)
  IN  (/\ run.pc = "subscriber"
       /\ run.i <= Len(influencers)
       /\ run.j <= Len(influencers[run.i].subscribers)
       /\ runs'[r] # run)
      => IF expected = <<>>
         THEN runs'[r].pc = "subscriber" /\ runs'[r].j = run.j + 1
         ELSE runs'[r].pc = "filter" /\ runs'[r].relevant = expected

C3_WindowIsHalfOpen == [][\A r \in Runs : C3_Step(r)]_vars

\* A subscriber whose window has a signal exactly on its upper border (kept)
\* and one exactly on its lower border or 1 ms past the upper one (dropped).
C3_Witness ==
  \E r \in Runs :
    /\ runs[r].pc = "filter"
    /\ LET influencer == influencers[runs[r].i]
           T0 == influencer.subscribers[runs[r].j].subscribedAt
           valid == filterValidSignals(
                      signalsOf(runs[r].signalsMap, influencer.name))
           kept == { runs[r].relevant[n]._id : n \in 1..Len(runs[r].relevant) }
       IN  /\ \E n \in 1..Len(valid) :
                valid[n].date = T0 + SevenDaysMs /\ valid[n]._id \in kept
           /\ \E n \in 1..Len(valid) :
                /\ valid[n].date = T0 + SevenDaysMs + 1
                /\ valid[n]._id \notin kept

\* C4. In the stake exit flow, for every ready stake opened at A with exit
\* timestamp B, every valid signal of a fetched influencer that was generated
\* at exactly A or exactly B is among the signals of that stake's
\* StakeExitData, from which its totalPnL is computed; this for every stake
\* of the batch, the one with the earliest timestamp included.
C4_BoundarySignalsIncluded ==
  \A n \in 1..Len(xrun.results) :
    \A q \in 1..Len(BacktestingResults) :
      LET res == xrun.results[n]
          sig == BacktestingResults[q]
      IN  ( /\ sig.done
            /\ filterValidSignals(<<sig>>) # <<>>
            /\ sig.account \in DOMAIN xrun.signalsMap
            /\ \/ sig.date = res.stakeRecord.timestamp
               \/ sig.date = res.stakeRecord.exitTimestamp )
          => \E m \in 1..Len(res.signals) : res.signals[m]._id = sig._id

\* C5. When no markSignalsAsProcessed call is in progress, each
\* subscriber's totalPnLPercentage equals the sum of finalPnL over the
\* subscriber's ledger rows, also after a call that failed.
C5_SummaryEqualsLedgerSum ==
  (\A r \in Runs : ~ MarkInProgress(r)) =>
    \A a \in Addresses : SummaryTotal(a) = LedgerSum(ledger, a)

\* C6. Every ledger row of a subscriber under an influencer, and every
\* signal of a batch or of an emitted result, was generated inside the
\* subscriber's window (subscribedAt, subscribedAt + 7 days] for that
\* influencer.
InWindowOfPair(influencerName, subscriberAddress, date) ==
  \E T0 \in SubscribedAtOf(influencerName, subscriberAddress) :
    T0 < date /\ date <= T0 + SevenDaysMs

C6_OnlyWindowSignalsRecorded ==
  /\ \A n \in 1..Len(ledger) :
       InWindowOfPair(ledger[n].influencerName, ledger[n].subscriberAddress,
                      ledger[n].signalGenerationDate)
  /\ \A r \in Runs :
       /\ \A n \in 1..Len(runs[r].batch) :
            InWindowOfPair(runs[r].batch[n].influencerName,
                           runs[r].batch[n].subscriberAddress,
                           runs[r].batch[n].signalGenerationDate)
       /\ \A a \in DOMAIN runs[r].results :
            \A n \in 1..Len(runs[r].results[a].signals) :
              InWindowOfPair(runs[r].results[a].signals[n].influencerName,
                             a,
                             runs[r].results[a].signals[n].signalGenerationDate)

\* A run is over, a signal exists 1 ms past a window whose rows were
\* written, and the subscriber's total counts the rows only.
C6_Witness ==
  \E r \in Runs :
    /\ runs[r].pc = "done"
    /\ "0xS2" \in DOMAIN runs[r].results
    /\ \E n \in 1..Len(ledger) :
         /\ ledger[n].subscriberAddress = "0xS2"
         /\ ledger[n].influencerName = "alice"
    /\ \E T0 \in SubscribedAtOf("alice", "0xS2") :
         \E k \in 1..Len(BacktestingResults) :
           /\ BacktestingResults[k].account = "alice"
           /\ BacktestingResults[k].done
           /\ BacktestingResults[k].date = T0 + SevenDaysMs + 1
           /\ \A n \in 1..Len(ledger) :
                ledger[n].signalId # BacktestingResults[k]._id

\* C7. When the ledger lookup throws, the lookup yields the empty set, every
\* candidate signal stays in the batch, and the subscriber is processed up
\* to its ledger write instead of being skipped or ending the run.
C7_LookupFailureKeepsAll ==
  \A r \in Runs :
    runs[r].lookupFailed =>
      /\ getProcessedSignalIds(runs[r].address, ledger, TRUE) = {}
      /\ runs[r].pc \in {"summary", "insert", "update", "verify", "subscriber"}
      /\ (runs[r].pc # "subscriber") =>
            /\ Len(runs[r].relevant) > 0
            /\ BatchIds(runs[r].batch) = SignalIds(runs[r].relevant)
      /\ (runs[r].pc = "subscriber") => runs[r].mark \in {"ok", "failed"}

\* The lookup threw for the first subscriber of a run, the subscriber's
\* whole candidate set was written, and the run stands at the next
\* subscriber.
C7_Witness ==
  \E r \in Runs :
    /\ runs[r].lookupFailed
    /\ runs[r].mark = "ok"
    /\ runs[r].pc = "subscriber"
    /\ runs[r].i = 1 /\ runs[r].j = 2
    /\ \E n \in 1..Len(ledger) : ledger[n].subscriberAddress = "0xS1"

\* C8. When markSignalsAsProcessed fails, the batch is not committed: the
\* ledger and the summary are as they were when the call began.
C8_FailedMarkCommitsNothing ==
  \A r \in Runs :
    (runs[r].mark = "failed") =>
      /\ ledger = runs[r].before.ledger
      /\ summary = runs[r].before.summary

\* C9. A subscriber iteration whose relevant set or whose unprocessed set is
\* empty ends with the ledger, the summary and the results as they were,
\* and markSignalsAsProcessed called with an empty list returns without
\* touching the ledger or the summary.
C9_Step(r) ==
  LET run == runs[r]
      pairAt == run.i <= Len(influencers)
                /\ run.j <= Len(influencers[run.i].subscribers)
      influencer == influencers[run.i]
      subscriber == influencer.subscribers[run.j]
      relevantNow == relevantSignalsOf(
                       filterValidSignals(
                         signalsOf(run.signalsMap, influencer.name)),
                       subscriber)
      unprocessedNow == filterUnprocessedSignals(
                          subscriber.address, run.relevant, ledger,
                          runs'[r].lookupFailed)
      emptyPair ==
        \/ run.pc = "subscriber" /\ pairAt /\ Len(relevantNow) = 0
        \/ run.pc = "filter" /\ Len(unprocessedNow) = 0
      emptyCall == calls' = calls + 1 /\ runs'[r].caller = "direct"
                   /\ runs'[r].records = <<>>
  IN  /\ (emptyPair /\ runs'[r] # run) =>
            /\ ledger' = ledger
            /\ summary' = summary
            /\ runs'[r].results = run.results
            /\ runs'[r].pc = "subscriber"
            /\ runs'[r].j = run.j + 1
      /\ emptyCall =>
            /\ ledger' = ledger
            /\ summary' = summary
            /\ runs'[r].pc = "idle"

C9_EmptyBatchHasNoEffect ==
  /\ [][\A r \in Runs : C9_Step(r)]_vars
  /\ [](\A a \in DOMAIN summary : summary[a].totalSignalsProcessed > 0)

\* An empty-list call has returned, and a run has skipped a pair whose
\* signals were all processed before.
C9_Witness ==
  /\ calls > 0
  /\ \E r \in Runs :
       /\ runs[r].pc = "subscriber"
       /\ runs[r].j = 2
       /\ runs[r].i = 1
       /\ runs[r].results = EmptyMap
       /\ \E n \in 1..Len(ledger) : ledger[n].subscriberAddress = "0xS1"

\* C10. calculateFinalTradeValue(stakeAmount, pnl) is max(0, floor(v)) for
\* v = t + t * p / 100, t = stakeAmount * 10^18 * 2 / 100 and p the parsed
\* percentage, a finite number: the result r is a non-negative integer, r = 0 when v < 0,
\* and r <= v < r + 1 otherwise; a stake of 100 with p = -150 gives 0.
\* v = stakeAmount.m * 2 * (100 + p) * 10^(stakeAmount.e + 18 - 4).
C10_ExactValue(stakeAmount, p) ==
  Dec(stakeAmount.m * 2 * (100 * Scale + p),
      stakeAmount.e + 18 - 4 - FracDigits)

C10_FinalTradeValueRule ==
  (calc.done /\ isFinite(ParsePercent(calc.pnl))) =>
    LET p == ParsePercent(calc.pnl).v
        v == C10_ExactValue(calc.stakeAmount, p)
        r == calc.number
        \* d = v - r, at the finer of the two exponents
        d == DecAdd(v, Dec(0 - r.m, r.e))
    IN  /\ r.e >= 0
        /\ r.m >= 0
        /\ calc.text = DecToString(r)
        /\ (v.m < 0) => (r.m = 0)
        /\ (v.m >= 0) =>
             /\ d.m >= 0
             /\ (d.m = 0 \/ (d.e < 0 /\ d.m < Pow10(0 - d.e)))
        /\ (calc.stakeAmount = Dec(100, 0) /\ p = (0 - 150) * Scale) =>
             calc.text = <<"0">>

\* The valuation of a stake of 100 at -150.00% is done and printed "0".
C10_Witness ==
  /\ calc.done
  /\ calc.stakeAmount = Dec(100, 0)
  /\ ParsePercent(calc.pnl) = Num((0 - 150) * Scale)
  /\ calc.text = <<"0">>

C12_EachStakeExitedOnce ==
  \A m, n \in 1..Len(exitCalls) :
    ( /\ m < n
      /\ exitCalls[m].userAddress = exitCalls[n].userAddress
      /\ exitCalls[m].stakeIndex = exitCalls[n].stakeIndex )
    => /\ exitCalls[m].run = exitCalls[n].run
       /\ ~ exitCalls[m].ok

\* C13. A run of processSignalsMain that fails in its start-up checks
\* (environment variable, blockchain health, connect, database health)
\* throws to its caller and has written nothing to the ledger, the summary
\* or the audit collection and has invoked neither exitTrade nor
\* updateTradeValue.
C13_Step ==
  (xrun'.fatal = "startup" /\ xrun' # xrun) =>
     /\ xrun'.pc = "threw"
     /\ ledger' = ledger
     /\ summary' = summary
     /\ tradeValueUpdates' = tradeValueUpdates
     /\ exitCalls' = exitCalls
     /\ updateCalls' = updateCalls
     /\ xrun'.totalBlockchainExits = 0
     /\ xrun'.totalBlockchainErrors = 0

C13_FatalStartWritesNothing == [][C13_Step]_vars

\* A second run failed in its start-up checks after a first run that had
\* exited stakes; the calls on record are those of the first run.
C13_Witness ==
  /\ xrun.fatal = "startup"
  /\ xrun.pc = "threw"
  /\ xrun.n = 2
  /\ Len(exitCalls) > 0
  /\ \A m \in 1..Len(exitCalls) : exitCalls[m].run = 1

C15_SuccessfulCallsAreAudited ==
  /\ (xrun.pc = "returned") =>
       \A m \in 1..Len(exitCalls) :
         exitCalls[m].ok =>
           \E q \in 1..Len(tradeValueUpdates) :
             /\ tradeValueUpdates[q].subscriberAddress = exitCalls[m].userAddress
             /\ tradeValueUpdates[q].stakeIndex = exitCalls[m].stakeIndex
  /\ (upd.pc \in {"loop", "returned"}) =>
       \A m \in 1..Len(updateCalls) :
         LET rows == { q \in 1..Len(tradeValueUpdates) :
                         /\ tradeValueUpdates[q].subscriberAddress
                              = updateCalls[m].userAddress
                         /\ tradeValueUpdates[q].stakeIndex
                              = updateCalls[m].stakeIndex
                         /\ tradeValueUpdates[q].run = updateCalls[m].run }
         IN  IF updateCalls[m].success THEN Cardinality(rows) = 1
             ELSE rows = {}

\* C16. When updateTradeValue fails for a stake, the failure is counted as
\* an error, the loop goes on with the next stake, and the ledger rows and
\* the summary written for the subscriber stay as they are.
C16_Step ==
  ( /\ Len(updateCalls') = Len(updateCalls) + 1
    /\ ~ updateCalls'[Len(updateCalls')].success )
  => /\ upd'.errors = upd.errors + 1
     /\ upd'.updated = upd.updated
     /\ upd'.pc = "loop"
     /\ upd'.i = upd.i + 1
     /\ ledger' = ledger
     /\ summary' = summary
     /\ tradeValueUpdates' = tradeValueUpdates

C16_FailedUpdateIsCountedAndSkipped == [][C16_Step]_vars

\* A call failed for one stake and a later stake of the same run was
\* updated, with the rows of the subscriber's batch still in the ledger.
C16_Witness ==
  /\ ledger = SettledBatch
  /\ Len(ledger) > 0
  /\ upd.errors > 0
  /\ \E m, n \in 1..Len(updateCalls) :
       /\ m < n
       /\ updateCalls[m].run = upd.n /\ updateCalls[n].run = upd.n
       /\ updateCalls[m].userAddress = ledger[1].subscriberAddress
       /\ ~ updateCalls[m].success
       /\ updateCalls[n].success

\* C17. No item is dropped without a count: when updateUserTradesWithSignals
\* returns, every stake index below the user's on-chain stake count that is
\* active and trading has incremented exactly one of updated and errors,
\* also when the read of the stake count or of the stake details failed.
C17_EveryActiveStakeCounted ==
  (upd.pc = "returned") =>
     upd.updated + upd.errors =
       Cardinality({ i \in 1..Len(chain[upd.userAddress]) :
                       /\ chain[upd.userAddress][i].active
                       /\ chain[upd.userAddress][i].tradeActive })

\* C18. Only valid signals are counted: every signal in a batch whose sum
\* is a subscriber's new P&L, every signal of a ledger row and every signal
\* summed into a stake's totalPnL has backtesting_done = true and a Final
\* P&L that parses as a finite number.
C18_SignalById(id) ==
  BacktestingResults[CHOOSE n \in 1..Len(BacktestingResults) :
                       BacktestingResults[n]._id = id]

C18_OnlyValidSignalsCounted ==
  /\ \A r \in Runs : \A n \in 1..Len(runs[r].batch) :
       /\ C18_SignalById(runs[r].batch[n].signalId).done
       /\ isFinite(ParsePercent(runs[r].batch[n].finalPnL))
  /\ \A n \in 1..Len(ledger) :
       /\ C18_SignalById(ledger[n].signalId).done
       /\ isFinite(ParsePercent(ledger[n].finalPnL))
  /\ \A n \in 1..Len(xrun.results) :
       \A k \in 1..Len(xrun.results[n].signals) :
         /\ xrun.results[n].signals[k].done
         /\ isFinite(ParsePercent(xrun.results[n].signals[k].pnl))

\* C19. calculateTotalSumPnL (both copies) returns "0%" when the list is
\* empty or no entry parses; otherwise it returns the sum of the entries
\* that parse, rounded to hundredths, printed as an optional '-', digits,
\* '.', exactly two digits and '%'.
ParsedEntries(entries) ==
  SelectSeq(entries, LAMBDA e : ~ isNaN(ParsePercent(e)))

RECURSIVE DirectSum(_)
DirectSum(entries) ==
  IF entries = <<>> THEN Num(0)
  ELSE NumAdd(ParsePercent(Head(entries)), DirectSum(Tail(entries)))

\* x rounded to hundredths, ties away from zero as toFixed rounds them.
RoundToHundredths(x) ==
  IF ~ isFinite(x) THEN x
  ELSE LET h == (Abs(x.v) * 100 + (Scale \div 2)) \div Scale
       IN  Num((IF x.v < 0 THEN 0 - 1 ELSE 1) * h * (Scale \div 100))

IsTwoDecimalsPercent(s) ==
  LET first == IF Len(s) > 0 /\ s[1] = "-" THEN 2 ELSE 1
      n     == Len(s)
  IN  /\ n >= first + 4
      /\ s[n] = "%"
      /\ IsDigit(s[n - 1]) /\ IsDigit(s[n - 2])
      /\ s[n - 3] = "."
      /\ \A k \in first..(n - 4) : IsDigit(s[k])

C19_Returned(text) ==
  LET parsed == ParsedEntries(calc.entries)
  IN  IF Len(parsed) = 0 THEN text = <<"0", "%">>
      ELSE /\ IsTwoDecimalsPercent(text)
           /\ ParsePercent(text) = RoundToHundredths(DirectSum(parsed))

C19_TotalSumIsTwoDecimalPercent ==
  /\ calc.doneSum => C19_Returned(calc.sumText)
  /\ calc.doneSumOfSignals => C19_Returned(calc.sumOfSignalsText)

C21_StoredTotal(coll, subscriberAddress) ==
  IF subscriberAddress \in DOMAIN coll
  THEN coll[subscriberAddress].totalPnLPercentage
  ELSE Num(0)

C21_CumulativeTotalEmitted ==
  \A r \in Runs :
    (runs[r].caller = "engine" /\ MarkInProgress(r)) =>
      LET run      == runs[r]
          existing == C21_StoredTotal(run.before.summary, run.address)
          newPnL   == ParsePercent(calculateTotalSumPnL(run.batch))
          emitted  == run.results[run.address].totalSumPnL
      IN  /\ IsTwoDecimalsPercent(emitted)
          /\ ParsePercent(emitted)
               = RoundToHundredths(NumAdd(existing, newPnL))
          /\ (existing = Num(5 * Scale) /\ newPnL = Num(0 - (5 * Scale) \div 2))
               => emitted = <<"2", ".", "5", "0", "%">>

\* C22. The step that ends a successful markSignalsAsProcessed leaves the
\* subscriber's totalSignalsProcessed larger by the batch size than it was
\* when the call started, and in every state with no call in progress
\* totalSignalsProcessed equals the number of the subscriber's ledger rows.
C22_Processed(coll, subscriberAddress) ==
  IF subscriberAddress \in DOMAIN coll
  THEN coll[subscriberAddress].totalSignalsProcessed
  ELSE 0

C22_Rows(subscriberAddress) ==
  Len(SelectSeq(ledger, LAMBDA row : row.subscriberAddress = subscriberAddress))

C22_CountEqualsLedgerRows ==
  /\ \A r \in Runs :
       (runs[r].pc = "verify") =>
         C22_Processed(summary, runs[r].address)
           = C22_Processed(runs[r].before.summary, runs[r].address)
               + Len(runs[r].records)
  /\ (\A r \in Runs : ~ MarkInProgress(r)) =>
       \A a \in Addresses : C22_Processed(summary, a) = C22_Rows(a)

\* C23. Within one run the steps of one subscriber follow one another:
\* the summary read starts only when the ledger read is done, the ledger
\* write only when the summary read is done, the summary write only after
\* the ledger write, all for the subscriber the iteration is about; the
\* ledger and the summary change only in those write steps and only for
\* that subscriber, and the iteration turns to no other subscriber before
\* its call of markSignalsAsProcessed is over.
C23_InIteration(run) ==
  run.caller = "engine"
    /\ run.pc \in {"filter", "summary", "insert", "update", "verify"}

C23_Step ==
  /\ \A r \in Runs :
       LET run == runs[r]
           nxt == runs'[r]
       IN  /\ (nxt.caller = "engine" /\ nxt.pc = "summary" /\ run.pc # "summary")
                => (run.pc = "filter" /\ nxt.address = run.address)
           /\ (nxt.caller = "engine" /\ nxt.pc = "insert" /\ run.pc # "insert")
                => /\ run.pc = "summary"
                   /\ nxt.address = run.address
                   /\ nxt.records = processedSignalRecords(run.batch)
           /\ (nxt.pc = "update" /\ run.pc # "update") => run.pc = "insert"
           /\ (nxt.pc = "verify" /\ run.pc # "verify") => run.pc = "update"
           /\ C23_InIteration(run) =>
                /\ nxt.address = run.address
                /\ nxt.i = run.i
                /\ (nxt.j = run.j \/ nxt.pc = "subscriber")
                /\ run.address = influencers[run.i].subscribers[run.j].address
  /\ (ledger' # ledger) =>
       \E r \in Runs :
         /\ runs[r].pc = "insert"
         /\ ledger' = ledger \o runs[r].records
         /\ \A n \in 1..Len(runs[r].records) :
              runs[r].records[n].subscriberAddress = runs[r].address
  /\ (summary' # summary) =>
       \E r \in Runs :
         /\ runs[r].pc = "update"
         /\ \A a \in DOMAIN summary :
              a # runs[r].address => (a \in DOMAIN summary' /\ summary'[a] = summary[a])

C23_ReadsThenWritesPerSubscriber == [][C23_Step]_vars

\* The second subscriber of an influencer has its batch written, ledger
\* and summary, after the first one's.
C23_Witness ==
  \E r \in Runs :
    /\ runs[r].caller = "engine"
    /\ runs[r].pc = "verify"
    /\ runs[r].j = 2
    /\ \E n \in 1..Len(ledger) :
         ledger[n].subscriberAddress # runs[r].address

\* C24. Two executions that overlap on a subscriber: once both have
\* inserted a batch holding the same signal, the ledger holds the pair
\* (subscriberAddress, signalId) twice, and once both have updated the
\* summary, totalSignalsProcessed counts both batches; no step refuses the
\* second insert or the second increment.
C24_PairCount(subscriberAddress, signalId) ==
  Len(SelectSeq(ledger, LAMBDA row : /\ row.subscriberAddress = subscriberAddress
                                     /\ row.signalId = signalId))

C24_Inserted(r) == runs[r].caller = "engine" /\ runs[r].pc \in {"update", "verify"}

\* The execution is back from markSignalsAsProcessed for its subscriber.
C24_Returned(r) ==
  /\ runs[r].caller = "engine" /\ runs[r].pc = "subscriber"
  /\ runs[r].mark \in {"ok", "failed"}
  /\ runs[r].address \in DOMAIN runs[r].results

\* The signal ids of the batch the execution handed to the ledger write.
C24_Batch(r) ==
  LET signals == runs[r].results[runs[r].address].signals
  IN  { signals[n].signalId : n \in 1..Len(signals) }

\* The execution read the summary, and before it the ledger, while the
\* ledger held no row of the pair.
C24_ReadBeforeWrite(r, signalId) ==
  \A n \in 1..Len(runs[r].before.ledger) :
    ~ (/\ runs[r].before.ledger[n].subscriberAddress = runs[r].address
       /\ runs[r].before.ledger[n].signalId = signalId)

C24_OverlapRecordsTwice ==
  /\ \A r1, r2 \in Runs :
       (r1 # r2 /\ C24_Inserted(r1) /\ C24_Inserted(r2)
          /\ runs[r1].address = runs[r2].address) =>
         /\ \A m \in 1..Len(runs[r1].records) :
              (\E n \in 1..Len(runs[r2].records) :
                 runs[r2].records[n].signalId = runs[r1].records[m].signalId)
                => C24_PairCount(runs[r1].address,
                                 runs[r1].records[m].signalId) >= 2
         /\ (runs[r1].pc = "verify" /\ runs[r2].pc = "verify") =>
              C22_Processed(summary, runs[r1].address)
                >= Len(runs[r1].records) + Len(runs[r2].records)
  /\ \A r1, r2 \in Runs :
       (r1 # r2 /\ C24_Returned(r1) /\ C24_Returned(r2) /\ faults = 0
          /\ runs[r1].address = runs[r2].address) =>
         \A id \in C24_Batch(r1) \cap C24_Batch(r2) :
           (C24_ReadBeforeWrite(r1, id) /\ C24_ReadBeforeWrite(r2, id)) =>
             /\ runs[r1].mark = "ok" /\ runs[r2].mark = "ok"
             /\ C24_PairCount(runs[r1].address, id) >= 2
             /\ C22_Processed(summary, runs[r1].address)
                  >= Cardinality(C24_Batch(r1)) + Cardinality(C24_Batch(r2))

\* Both executions read the ledger while it held no row of the subscriber,
\* both wrote the same batch, and the ledger and the summary count it
\* twice.
C24_Witness ==
  \E r1, r2 \in Runs :
    /\ r1 # r2
    /\ runs[r1].pc = "verify" /\ runs[r2].pc = "verify"
    /\ runs[r1].address = runs[r2].address
    /\ ~ runs[r1].lookupFailed /\ ~ runs[r2].lookupFailed
    /\ runs[r1].records = runs[r2].records
    /\ Len(runs[r1].records) > 0
    /\ \A n \in 1..Len(runs[r1].records) :
         C24_PairCount(runs[r1].address, runs[r1].records[n].signalId) = 2
    /\ C22_Processed(summary, runs[r1].address) = 2 * Len(runs[r1].records)
    /\ C22_Rows(runs[r1].address) = 2 * Len(runs[r1].records)

\* C25. Outside the aggregation engine nothing writes the ledger or the
\* summary: every step of the stake exit flow, and of the periodic value
\* update, leaves processed_signals and user_signal_summary as they were;
\* the exit flow writes no trade_value_updates row, and a row is appended
\* only as the step after an updateTradeValue call that succeeded, for that
\* call's user, stake and value.
C25_ExitStep == xrun' # xrun \/ exitCalls' # exitCalls

C25_Step ==
  /\ ledger' = ledger
  /\ summary' = summary
  /\ C25_ExitStep => tradeValueUpdates' = tradeValueUpdates
  /\ tradeValueUpdates' # tradeValueUpdates =>
       /\ Len(tradeValueUpdates') = Len(tradeValueUpdates) + 1
       /\ SubSeq(tradeValueUpdates', 1, Len(tradeValueUpdates)) = tradeValueUpdates
       /\ updateCalls # <<>>
       /\ LET call == updateCalls[Len(updateCalls)]
              row == tradeValueUpdates'[Len(tradeValueUpdates')]
          IN  /\ call.success
              /\ row.subscriberAddress = call.userAddress
              /\ row.stakeIndex = call.stakeIndex
              /\ row.run = call.run
              /\ row.newTradeValue = DecToString(call.newValue)
              /\ Len(SelectSeq(tradeValueUpdates', LAMBDA t : t.run = call.run))
                   <= Len(SelectSeq(updateCalls,
                                    LAMBDA c : c.run = call.run /\ c.success))

C25_OnlyTheEngineWritesLedgerAndSummary == [][C25_Step]_vars

\* The exit flow made a successful exitTrade call and the value update
\* stored a row, over a ledger and a summary that hold a batch.
C25_Witness ==
  /\ \E n \in 1..Len(exitCalls) : exitCalls[n].ok
  /\ xrun.pc = "returned"
  /\ tradeValueUpdates # <<>>
  /\ \E n \in 1..Len(updateCalls) : ~ updateCalls[n].success
  /\ ledger # <<>>
  /\ DOMAIN summary # {}

\* C26. The aggregation is a function of its inputs: an execution in which
\* no database call fails ends with the results, the ledger and the summary
\* that C26_Outcome computes from the influencers, the signals, and the
\* ledger and summary contents the execution started from, so two such
\* executions from equal inputs end equal (the model holds no timestamps of
\* the writes).
C26_Pairs(infls) ==
  Flatten([ i \in 1..Len(infls) |->
              [ j \in 1..Len(infls[i].subscribers) |-> <<i, j>> ] ])

RECURSIVE C26_Fold(_, _, _, _)
C26_Fold(pairs, infls, signalsMap, acc) ==
  IF pairs = <<>> THEN acc
  ELSE
    LET influencer == infls[Head(pairs)[1]]
        subscriber == influencer.subscribers[Head(pairs)[2]]
        relevant ==
          relevantSignalsOf(
            filterValidSignals(signalsOf(signalsMap, influencer.name)),
            subscriber)
        batch ==
          processSubscriberSignals(subscriber, influencer,
            filterUnprocessedSignals(subscriber.address, relevant,
                                     acc.ledger, FALSE))
        records == processedSignalRecords(batch)
        total == NumAdd(existingTotalPnL(acc.summary, subscriber.address, FALSE),
                        ParsePercent(calculateTotalSumPnL(batch)))
        result == [signals |-> batch,
                   totalSumPnL |-> NumToFixed2(total) \o <<"%">>,
                   newSignalsCount |-> Len(batch)]
        next ==
          IF batch = <<>> THEN acc
          ELSE [results |-> [ a \in (DOMAIN acc.results) \cup {subscriber.address} |->
                                IF a = subscriber.address THEN result
                                ELSE acc.results[a] ],
                ledger |-> acc.ledger \o records,
                summary |-> upsertSummary(acc.summary, subscriber.address, records)]
    IN  C26_Fold(Tail(pairs), infls, signalsMap, next)

C26_Outcome(infls, signalsMap, ledgerAtStart, summaryAtStart) ==
  C26_Fold(C26_Pairs(infls), infls, signalsMap,
           [results |-> EmptyMap, ledger |-> ledgerAtStart,
            summary |-> summaryAtStart])

\* The loop of the execution is over and none of its calls failed.
C26_CleanEnd(r) ==
  /\ runs[r].caller = "engine"
  /\ runs[r].pc = "subscriber"
  /\ runs[r].i > Len(influencers)
  /\ runs[r].clean

C26_AggregationIsDeterministic ==
  \A r \in Runs :
    C26_CleanEnd(r) =>
      LET out == C26_Outcome(influencers, runs[r].signalsMap,
                             runs[r].ledgerAtStart, runs[r].summaryAtStart)
      IN  /\ runs[r].results = out.results
          /\ ledger = out.ledger
          /\ summary = out.summary

\* A second execution ends clean after a first one left rows behind and
\* still finds new signals to record.
C26_Witness ==
  \E r \in Runs :
    /\ C26_CleanEnd(r)
    /\ runs[r].ledgerAtStart # <<>>
    /\ DOMAIN runs[r].results # {}
    /\ Len(ledger) > Len(runs[r].ledgerAtStart)

\* C27. exitTrade is called only for a stake whose exitTimestamp is at or
\* before the time of the readiness check of that execution, and a stake
\* whose exitTimestamp equals that time is among the ready ones; an
\* execution that finds no ready stake makes no exitTrade call and reports
\* zero exits and zero errors.
C27_StakesOf(walletAddress) ==
  LET docs == SelectSeq(stakeDocs, LAMBDA d : d.walletAddress = walletAddress)
  IN  IF docs = <<>> THEN <<>> ELSE docs[1].stakes

C27_CallsOfRun == SelectSeq(exitCalls, LAMBDA c : c.run = xrun.n)

C27_ReadyPairs ==
  { <<readyList(xrun.stakesReadyToExit)[n].walletAddress,
      readyList(xrun.stakesReadyToExit)[n].index>> :
      n \in 1..Len(readyList(xrun.stakesReadyToExit)) }

C27_DuePairs ==
  { <<stakeDocs[u].walletAddress, n - 1>> :
      u \in 1..Len(stakeDocs), n \in 1..3 } \cap
  { p \in Addresses \X (0..2) :
      /\ p[2] + 1 <= Len(C27_StakesOf(p[1]))
      /\ C27_StakesOf(p[1])[p[2] + 1].exitTimestamp <= xrun.checkedAt }

C27_ExitOnlyWhenDue ==
  /\ \A n \in 1..Len(C27_CallsOfRun) :
       LET call == C27_CallsOfRun[n]
           stakes == C27_StakesOf(call.userAddress)
       IN  /\ xrun.checkedAt > 0
           /\ call.stakeIndex + 1 <= Len(stakes)
           /\ stakes[call.stakeIndex + 1].exitTimestamp <= xrun.checkedAt
  /\ xrun.checkedAt > 0 => C27_ReadyPairs = C27_DuePairs
  /\ (xrun.pc \in {"returned", "threw"} /\ xrun.stakesReadyCount = 0) =>
       /\ C27_CallsOfRun = <<>>
       /\ xrun.totalBlockchainExits = 0
       /\ xrun.totalBlockchainErrors = 0
  /\ (xrun.checkedAt > 0 /\ xrun.stakesReadyCount = 0) => xrun.pc = "returned"

\* exitTrade was called for a stake whose exitTimestamp is the very time of
\* the readiness check.
C27_Witness ==
  \E n \in 1..Len(C27_CallsOfRun) :
    LET call == C27_CallsOfRun[n]
    IN  /\ call.ok
        /\ C27_StakesOf(call.userAddress)[call.stakeIndex + 1].exitTimestamp
             = xrun.checkedAt

\* C28. processStakeExits returns one StakeExitData per ready stake, in the
\* order of the ready stakes; its signals are, without repetition, the
\* signals of the fetched lists of the known influencers that pass the
\* validity filter and are dated inside [timestamp, exitTimestamp] of that
\* stake; a stake with no such signal gets totalPnL "0%" and, as
\* finalTradeValue, 2% of its stake amount in wei.
C28_Processed == xrun.pc = "exit" \/ xrun.results # <<>>

C28_Expected(stake) ==
  { sig \in UNION { { xrun.signalsMap[name][n] : n \in 1..Len(xrun.signalsMap[name]) } :
                     name \in (DOMAIN xrun.signalsMap) \cap
                              { influencers[k].name : k \in 1..Len(influencers) } } :
      /\ sig.pnl # <<>>
      /\ ~ isNaN(ParsePercent(sig.pnl))
      /\ stake.timestamp <= sig.date
      /\ sig.date <= stake.exitTimestamp }

C28_TradingAmountWei(stake) ==
  DecToString(Dec(2 * stake.stakeAmount.m, stake.stakeAmount.e + 16))

C30_ResultsAreCommitted ==
  \A r \in Runs :
    (runs[r].caller = "engine" /\ ~ MarkInProgress(r)) =>
      /\ \A a \in DOMAIN runs[r].results :
           \A n \in 1..Len(runs[r].results[a].signals) :
             \E m \in 1..Len(ledger) :
               /\ ledger[m].subscriberAddress = a
               /\ ledger[m].signalId = runs[r].results[a].signals[n].signalId
      /\ (runs[r].pc = "subscriber" /\ runs[r].mark = "failed") =>
           runs[r].address \notin DOMAIN runs[r].results

\* C31. When an execution of processAllInfluencerSignals returns, the sum
\* of newSignalsCount over the results of its map equals the number of
\* rows the execution wrote to processed_signals.
RECURSIVE C31_SumOfCounts(_, _)
C31_SumOfCounts(results, addresses) ==
  IF addresses = {} THEN 0
  ELSE LET a == CHOOSE x \in addresses : TRUE
       IN  results[a].newSignalsCount
             + C31_SumOfCounts(results, addresses \ {a})

C31_CountsEqualRowsWritten ==
  \A r \in Runs :
    (/\ runs[r].caller = "engine"
     /\ runs[r].pc = "subscriber"
     /\ runs[r].i > Len(influencers)) =>
      C31_SumOfCounts(runs[r].results, DOMAIN runs[r].results)
        = runs[r].inserted

\* The executeJob executions that have been entered and have not returned.
InFlight == { j \in Jobs : jobs[j].pc # "idle" }

\* C32: the manager never has two executeJob executions in flight at once;
\* a cron tick or the start-up timer does not enter processSignalsMain
\* while an earlier execution has not finished.
C32_OneJobInFlight == Cardinality(InFlight) <= 1

\* C33: an execution of processSignalsMain that passed its database health
\* check never finds the shared handle gone because the finally block of
\* another execution disconnected it.
C33_NoRunLosesItsHandle == \A j \in Jobs : ~ jobs[j].lost

C34_Counted ==
  /\ manager.successfulRuns + manager.failedRuns <= manager.totalRuns
  /\ manager.totalRuns =
       manager.successfulRuns + manager.failedRuns + Cardinality(InFlight)
  /\ InFlight = {} => manager.totalRuns = manager.successfulRuns + manager.failedRuns

C34_Finishing == { j \in Jobs : jobs[j].pc # "idle" /\ jobs'[j].pc = "idle" }

C34_Step ==
  /\ Cardinality(C34_Finishing) <= 1
  /\ \A j \in C34_Finishing :
       /\ jobs[j].outcome \in {"returned", "threw"}
       /\ jobs[j].outcome = "returned" =>
            /\ manager'.successfulRuns = manager.successfulRuns + 1
            /\ manager'.failedRuns = manager.failedRuns
       /\ jobs[j].outcome = "threw" =>
            /\ manager'.failedRuns = manager.failedRuns + 1
            /\ manager'.successfulRuns = manager.successfulRuns
       /\ manager'.totalRuns = manager.totalRuns
  /\ C34_Finishing = {} =>
       /\ manager'.successfulRuns = manager.successfulRuns
       /\ manager'.failedRuns = manager.failedRuns

\* C34: successfulRuns + failedRuns never exceeds totalRuns; an execution
\* of executeJob that finishes increments exactly one of the two, a throw
\* of processSignalsMain included, which is counted as a failure and ends
\* the execution; with no execution in flight totalRuns is their sum.
C34_RunsAreCountedOnce == [] C34_Counted /\ [][C34_Step]_vars

C34_Witness ==
  /\ InFlight = {}
  /\ manager.successfulRuns >= 1
  /\ manager.failedRuns >= 1
  /\ manager.totalRuns = MaxJobRuns

C35_Step ==
  manager'.managerCalls # manager.managerCalls =>
    /\ (manager'.lastCall = "start" /\ manager.cronJob) =>
         manager' = [manager EXCEPT !.managerCalls = @ + 1, !.lastCall = "start",
                                    !.found = TRUE]
    /\ (manager'.lastCall = "start" /\ ~ manager.cronJob) =>
         /\ manager'.cronJob
         /\ manager'.tasks = manager.tasks + 1
    /\ manager'.lastCall = "stop" =>
         /\ ~ manager'.cronJob
         /\ manager'.tasks = 0
    /\ (manager'.lastCall = "stop" /\ ~ manager.cronJob) =>
         manager' = [manager EXCEPT !.managerCalls = @ + 1, !.lastCall = "stop",
                                    !.found = FALSE]

\* C35: the manager holds at most one scheduled task: start with a task
\* changes nothing, stop clears the task so that a later start schedules a
\* new one, and stop without a task changes nothing.
C35_AtMostOneTask ==
  [] (manager.tasks <= 1 /\ (manager.cronJob <=> manager.tasks = 1)) /\ [][C35_Step]_vars

\* A start that found the task of an earlier start, after a tick of it.
C35_Witness ==
  /\ manager.lastCall = "start"
  /\ manager.found
  /\ manager.cronJob
  /\ manager.tasks = 1
  /\ manager.totalRuns >= 1

C36_SameStake(a, b) ==
  /\ a.userAddress = b.userAddress
  /\ a.stakeIndex = b.stakeIndex

C37_Rule(t, pnlValue) ==
  DecMax0(DecFloor(DecAdd(t, DecShift(DecMul(t, Dec(pnlValue.v, 0 - FracDigits)), 2))))

C37_SameNumber(a, b) == DecAdd(a, Dec(0 - b.m, b.e)).m = 0

\* C37: the two valuators agree: for a trading amount t and a percentage p
\* that parses to a finite number, calculateNewTradeValue(t, p) is
\* max(0, floor(t + t * p / 100)), also for a negative p whose change
\* t * |p| / 100 is not an integer.
C37_ValuatorsAgree ==
  LET pnlValue == ParsePercent(calc.pnl)
  IN  (calc.doneNew /\ ~ isNaN(pnlValue) /\ pnlValue.inf = 0) =>
        C37_SameNumber(calc.newValue, C37_Rule(calc.tradingAmount, pnlValue))

C38_RowsOf(a) == SelectSeq(ledger, LAMBDA row : row.subscriberAddress = a)

\* C38: after markSignalsAsProcessed calls that all succeeded, the
\* lastSignalDate of a subscriber's summary is the latest signal generation
\* time over all the rows recorded for that subscriber.
C38_LastSignalDateIsLatest ==
  (faults = 0 /\ \A r \in Runs : runs[r].mark # "running") =>
    \A a \in DOMAIN summary :
      C38_RowsOf(a) # <<>> =>
        summary[a].lastSignalDate = latestSignalDate(C38_RowsOf(a))

====
